---- MODULE Spec2Model ----
(***************************************************************************)
(* AgroPlan2: the record store (src/database.py) and the request handlers  *)
(* (src/app.py) of the crop-rotation planner.                              *)
(*                                                                         *)
(* Conventions of the model                                                *)
(*  - Python None is the empty tuple <<>>, a present value v is <<v>>.     *)
(*  - Cyrillic string literals of the source are transliterated, the       *)
(*    source text is quoted in the comment next to each of them.           *)
(*  - Areas are integers counting hundredths of a hectare (the polygon     *)
(*    area is rounded to 2 decimals by the code).                          *)
(*  - Coordinates are integers counting eighths of a degree, so that every *)
(*    coordinate is a binary fraction a float holds exactly.               *)
(***************************************************************************)
EXTENDS Integers, Sequences, FiniteSets, TLC

\* ------------------------------------------------------------------ bounds
MaxFields == 2
MaxHistory == 2
MantissaBits == 20
MaxRestarts == 1
MaxSessions == 2

\* --------------------------------------------------------------- optionals
None == <<>>
Some(v) == <<v>>
IsNone(o) == o = <<>>
Val(o) == o[1]

Restrict(f, S) == [x \in S |-> f[x]]
Abs(x) == IF x < 0 THEN 0 - x ELSE x

VARIABLES fields, history, field_seq, history_seq,
          flash_message, flash_error, resp, returned,
          rec_request, recommendations, calculation,
          area_origin, area_input, area_first, area_output,
          crop_rules, rule_seq, sessions, request, tx

vars == <<fields, history, field_seq, history_seq,
          flash_message, flash_error, resp, returned,
          rec_request, recommendations, calculation,
          area_origin, area_input, area_first, area_output,
          crop_rules, rule_seq, sessions, request, tx>>

\* the tables and counters of the store
store_vars == <<fields, history, field_seq, history_seq>>
\* a point list given to _calculate_polygon_area and the value returned:
\* area_origin is the list as first given and area_first its area,
\* area_input the list given last and area_output its area
area_vars == <<area_origin, area_input, area_first, area_output>>
\* the crop_rules table and the largest id AUTOINCREMENT has given in it
rule_vars == <<crop_rules, rule_seq>>
\* SessionManager.sessions, the session map of the process, and the last
\* request as session_middleware saw it
session_vars == <<sessions, request>>
\* what the request handlers of the store never write: the point lists, the
\* crop_rules table, the session map as a whole, and the open transaction
\* of a Database method run statement by statement
frame_vars == <<area_vars, rule_vars, session_vars, tx>>

\* ------------------------------------------------- floating point numbers
\* A float is modelled as an integer multiple of a fixed power of two and
\* every arithmetic result is rounded to MantissaBits significant bits,
\* ties to even, as IEEE-754 does with 53 bits.
RECURSIVE Pow2(_)
Pow2(n) == IF n = 0 THEN 1 ELSE 2 * Pow2(n - 1)

RECURSIVE Quantum(_, _)
Quantum(a, q) == IF a < Pow2(MantissaBits) * q THEN q ELSE Quantum(a, 2 * q)

\* a >= 0 rounded to the nearest multiple of q, ties to the even multiple
RoundHalfEven(a, q) ==
    LET k == a \div q
        r == a % q
    IN  IF 2 * r < q THEN k * q
        ELSE IF 2 * r > q THEN (k + 1) * q
        ELSE IF k % 2 = 0 THEN k * q ELSE (k + 1) * q

Fl(x) ==
    LET a == Abs(x)
        v == RoundHalfEven(a, Quantum(a, 1))
    IN  IF x < 0 THEN 0 - v ELSE v

\* ----------------------------------------- Database._calculate_polygon_area
\* coords[i] = <<lat, lng>>, Python coords[i][0] is coords[i][1] here.
Lat(pt) == pt[1]
Lng(pt) == pt[2]

\* the i-th addend of the loop, i in 1..n, j = (i + 1) % n in 0-based terms
ShoelaceTerm(coords, i) ==
    LET j == (i % Len(coords)) + 1
    IN  Fl(Fl(Lng(coords[i]) * Lat(coords[j])) - Fl(Lng(coords[j]) * Lat(coords[i])))

\* value of the accumulator "area" after k iterations of the loop
RECURSIVE ShoelaceSum(_, _)
ShoelaceSum(coords, k) ==
    IF k = 0 THEN 0
    ELSE Fl(ShoelaceSum(coords, k - 1) + ShoelaceTerm(coords, k))

\* round(area_hectares, 2), the floor of 0.01 left out
RoundHectares_nofloor(ah32) == RoundHalfEven(ah32 * 25, 8) \div 8

\* round(max(area_hectares, 0.01), 2) in hundredths of a hectare, for
\* area_hectares given in 1/32 hectare
RoundHectares(ah32) ==
    IF ah32 * 100 < 32 THEN 1
    ELSE RoundHalfEven(ah32 * 25, 8) \div 8

\* "len(coords) < 3" written as "len(coords) < 2"
TooFewPoints_two(coords) == Len(coords) < 2

\* line 409: if len(coords) < 3: return 0.0
TooFewPoints(coords) == Len(coords) < 3

\* The accumulated sum counts 1/64 square degree; abs(area) / 2.0 is exact
\* and area * 11100 is rounded once, which gives Fl(|sum| * 2775) in 1/32
\* hectare.
calculate_polygon_area_noabs(coords) ==
    IF TooFewPoints(coords) THEN 0
    ELSE LET s == ShoelaceSum(coords, Len(coords))
         IN  IF s < 0 THEN RoundHectares(0) ELSE RoundHectares(Fl(s * 2775))

calculate_polygon_area(coords) ==
    IF TooFewPoints(coords) THEN 0
    ELSE RoundHectares(Fl(Abs(ShoelaceSum(coords, Len(coords))) * 2775))

\* ------------------------------------------------------------ JSON texts
\* The polygon form field is a text: "" (kind "empty"), white space only
\* (kind "blank"), any other text json.loads rejects (kind "invalid"), the
\* JSON text of a list of [lat, lng] pairs (kind "list", val the parsed
\* list), of a list of numbers such as "[1, 2, 3]" (kind "scalars", val the
\* parsed list) or of a number such as "5" (kind "number").
EmptyText == [kind |-> "empty", val |-> <<>>]
BlankText == [kind |-> "blank", val |-> <<>>]
InvalidText == [kind |-> "invalid", val |-> <<>>]
ListText(pts) == [kind |-> "list", val |-> pts]
ScalarsText(nums) == [kind |-> "scalars", val |-> nums]
NumberText == [kind |-> "number", val |-> <<>>]
\* "if polygon_coords:"
Truthy(text) == text.kind # "empty"
\* "polygon_coords and polygon_coords.strip()"
NonBlank(text) == text.kind \notin {"empty", "blank"}
\* json.loads(text) returns a value
JsonValid(text) == text.kind \in {"list", "scalars", "number"}
JsonValue(text) == text.val
\* isinstance(value, list)
IsList(text) == text.kind \in {"list", "scalars"}
\* coord[0] and coord[1] are numbers for every element of the list; for
\* any other value the geometry code raises and the except branch logs it
IsPointList(text) == text.kind = "list"

\* ------------------------------------------------------- Database (store)
\* fields and history are the tables "fields" and "crop_history", functions
\* from the row id to the row; field_seq and history_seq are the
\* AUTOINCREMENT counters of the two tables (the largest id ever given).

RECURSIVE FlSum(_, _)
FlSum(seq, k) == IF k = 0 THEN 0 ELSE Fl(FlSum(seq, k - 1) + seq[k])

\* min(xs) taken to be the first element
SeqMin_first(seq) == seq[1]

SeqMin(seq) == CHOOSE m \in {seq[i] : i \in 1..Len(seq)} :
                  \A i \in 1..Len(seq) : m <= seq[i]
SeqMax(seq) == CHOOSE m \in {seq[i] : i \in 1..Len(seq)} :
                  \A i \in 1..Len(seq) : m >= seq[i]

\* sum(xs) / len(xs), kept as the fraction num / den
Mean(seq) == [num |-> FlSum(seq, Len(seq)), den |-> Len(seq)]

\* The row of a create_field that computes the area of every parsed
\* polygon, whatever area is given (used as a faulty variant)
db_create_field_row_overwrite(name, area, latitude, longitude, polygon_coords, soil_type) ==
    LET parsed == Truthy(polygon_coords) /\ IsPointList(polygon_coords)
                  /\ Len(JsonValue(polygon_coords)) > 0
        coords == JsonValue(polygon_coords)
        lats == [i \in 1..Len(coords) |-> Lat(coords[i])]
        lngs == [i \in 1..Len(coords) |-> Lng(coords[i])]
    IN  [name |-> name,
         area |-> IF parsed THEN Some(calculate_polygon_area(coords)) ELSE area,
         latitude |-> latitude,
         longitude |-> longitude,
         polygon_coords |-> polygon_coords,
         center_lat |-> IF parsed THEN Some(Mean(lats)) ELSE None,
         center_lng |-> IF parsed THEN Some(Mean(lngs)) ELSE None,
         bounding_box |-> IF parsed
                          THEN Some([min_lat |-> SeqMin(lats), max_lat |-> SeqMax(lats),
                                     min_lng |-> SeqMin(lngs), max_lng |-> SeqMax(lngs)])
                          ELSE None,
         soil_type |-> soil_type]

\* The row Database.create_field inserts. "not area" holds for None and 0.
db_create_field_row(name, area, latitude, longitude, polygon_coords, soil_type) ==
    LET parsed == Truthy(polygon_coords) /\ IsPointList(polygon_coords)
                  /\ Len(JsonValue(polygon_coords)) > 0
        coords == JsonValue(polygon_coords)
        lats == [i \in 1..Len(coords) |-> Lat(coords[i])]
        lngs == [i \in 1..Len(coords) |-> Lng(coords[i])]
    IN  [name |-> name,
         area |-> IF parsed /\ (IsNone(area) \/ area = Some(0))
                  THEN Some(calculate_polygon_area(coords)) ELSE area,
         latitude |-> latitude,
         longitude |-> longitude,
         polygon_coords |-> polygon_coords,
         center_lat |-> IF parsed THEN Some(Mean(lats)) ELSE None,
         center_lng |-> IF parsed THEN Some(Mean(lngs)) ELSE None,
         bounding_box |-> IF parsed
                          THEN Some([min_lat |-> SeqMin(lats), max_lat |-> SeqMax(lats),
                                     min_lng |-> SeqMin(lngs), max_lng |-> SeqMax(lngs)])
                          ELSE None,
         soil_type |-> soil_type]

\* Database.create_field on a table whose id is INTEGER PRIMARY KEY without
\* AUTOINCREMENT (used as a faulty variant): the new id is the largest
\* stored id plus one
db_create_field_rowid(name, area, latitude, longitude, polygon_coords, soil_type) ==
    LET rowid == IF DOMAIN fields = {} THEN 1
                 ELSE 1 + CHOOSE m \in DOMAIN fields : \A id \in DOMAIN fields : id <= m
    IN  /\ field_seq' = field_seq + 1
        /\ fields' = [id \in DOMAIN fields \cup {rowid} |->
                        IF id = rowid
                        THEN db_create_field_row(name, area, latitude, longitude,
                                                 polygon_coords, soil_type)
                             @@ [created_at |-> [insert |-> field_seq + 1]]
                        ELSE fields[id]]

\* created_at TIMESTAMP DEFAULT CURRENT_TIMESTAMP: the clock of the model
\* counts the inserts into fields, the value is the moment of the insert
CurrentTimestamp == [insert |-> field_seq + 1]

\* Database.create_field: INSERT, the new id is cursor.lastrowid; the
\* statement gives no created_at and the column takes its default
db_create_field(name, area, latitude, longitude, polygon_coords, soil_type) ==
    /\ field_seq' = field_seq + 1
    /\ fields' = [id \in DOMAIN fields \cup {field_seq + 1} |->
                    IF id = field_seq + 1
                    THEN db_create_field_row(name, area, latitude, longitude,
                                             polygon_coords, soil_type)
                         @@ [created_at |-> CurrentTimestamp]
                    ELSE fields[id]]

\* Database.get_field: the row as a dict, or None
get_field(field_id) ==
    IF field_id \in DOMAIN fields THEN Some(fields[field_id]) ELSE None

\* the geometry columns Database.update_field computes for a polygon text
db_update_geometry(polygon_coords) ==
    LET parsed == Truthy(polygon_coords) /\ IsPointList(polygon_coords)
                  /\ Len(JsonValue(polygon_coords)) > 0
        coords == JsonValue(polygon_coords)
        lats == [i \in 1..Len(coords) |-> Lat(coords[i])]
        lngs == [i \in 1..Len(coords) |-> Lng(coords[i])]
    IN  [center_lat |-> IF parsed THEN Some(Mean(lats)) ELSE None,
         center_lng |-> IF parsed THEN Some(Mean(lngs)) ELSE None,
         bounding_box |-> IF parsed
                          THEN Some([min_lat |-> SeqMin(lats), max_lat |-> SeqMax(lats),
                                     min_lng |-> SeqMin(lngs), max_lng |-> SeqMax(lngs)])
                          ELSE None]

\* Database.update_field: UPDATE ... WHERE id = ?; name, area and the
\* polygon text are set to the arguments, the geometry columns to the
\* values computed from the polygon text; no row when the id is not stored
db_update_field(field_id, name, area, polygon_coords) ==
    fields' = [id \in DOMAIN fields |->
                 IF id = field_id
                 THEN LET geometry == db_update_geometry(polygon_coords)
                      IN  [fields[id] EXCEPT !.name = name,
                                             !.area = area,
                                             !.polygon_coords = polygon_coords,
                                             !.center_lat = geometry.center_lat,
                                             !.center_lng = geometry.center_lng,
                                             !.bounding_box = geometry.bounding_box]
                 ELSE fields[id]]

\* its return value: cursor.rowcount > 0
db_update_field_updated(field_id) == field_id \in DOMAIN fields

\* Database.delete_field without its first DELETE (used as a faulty variant)
db_delete_field_keep_history(field_id) ==
    /\ history' = history
    /\ fields' = Restrict(fields, DOMAIN fields \ {field_id})

\* Database.delete_field: DELETE the history rows of the field, then the
\* field row (the climate_data table is written by no request handler and
\* is left out).
db_delete_field(field_id) ==
    /\ history' = Restrict(history, {h \in DOMAIN history : history[h].field_id # field_id})
    /\ fields' = Restrict(fields, DOMAIN fields \ {field_id})

\* its return value: cursor.rowcount > 0 of the last DELETE
db_delete_field_deleted(field_id) == field_id \in DOMAIN fields

\* Database.add_crop_history: INSERT, no check of field_id (SQLite does not
\* enforce the declared FOREIGN KEY, the connection never turns it on)
add_crop_history(field_id, year, season, crop, yield_amount, notes) ==
    /\ history_seq' = history_seq + 1
    /\ history' = [h \in DOMAIN history \cup {history_seq + 1} |->
                     IF h = history_seq + 1
                     THEN [field_id |-> field_id, year |-> year, season |-> season,
                           crop |-> crop, yield_amount |-> yield_amount, notes |-> notes]
                     ELSE history[h]]

\* Position of a season text in the order SQLite sorts texts by (code
\* points): "vesna" (U+0432..) < "zima" (U+0437..) < "leto" (U+043B..) <
\* "osen" (U+043E..).
SeasonCollation(season) ==
    CASE season = "vesna" -> 1
      [] season = "zima" -> 2
      [] season = "leto" -> 3
      [] season = "osen" -> 4
      [] OTHER -> 5

\* ORDER BY year DESC, season DESC; rows that tie come in rowid order
HistoryPrecedes(a, b) ==
    \/ history[a].year > history[b].year
    \/ /\ history[a].year = history[b].year
       /\ SeasonCollation(history[a].season) > SeasonCollation(history[b].season)
    \/ /\ history[a].year = history[b].year
       /\ history[a].season = history[b].season
       /\ a < b

RECURSIVE OrderedRows(_)
OrderedRows(S) ==
    IF S = {} THEN <<>>
    ELSE LET first == CHOOSE a \in S : \A b \in S \ {a} : HistoryPrecedes(a, b)
         IN  <<[id |-> first, field_id |-> history[first].field_id,
                year |-> history[first].year, season |-> history[first].season,
                crop |-> history[first].crop,
                yield_amount |-> history[first].yield_amount,
                notes |-> history[first].notes]>>
             \o OrderedRows(S \ {first})

\* Database.get_field_history
get_field_history(field_id) ==
    OrderedRows({h \in DOMAIN history : history[h].field_id = field_id})

\* the CASE of Database.get_last_crop: 'vesna' 1, 'leto' 2, 'osen' 3, ELSE 4
SeasonRank(season) ==
    CASE season = "vesna" -> 1
      [] season = "leto" -> 2
      [] season = "osen" -> 3
      [] OTHER -> 4

\* Database.get_last_crop: ORDER BY year DESC, CASE season ... END DESC
\* LIMIT 1; the rows (ids) that can come first, all of them when none is
\* stored for the field
get_last_crop(field_id) ==
    LET rows == {h \in DOMAIN history : history[h].field_id = field_id}
    IN  {h \in rows :
           \A g \in rows :
              \/ history[h].year > history[g].year
              \/ /\ history[h].year = history[g].year
                 /\ SeasonRank(history[h].season) >= SeasonRank(history[g].season)}

\* Database.delete_crop_history returning the id of the deleted row
delete_crop_history_result_rowid(history_id) ==
    IF history_id \in DOMAIN history THEN Some(history_id) ELSE None

\* Database.delete_crop_history: the returned field_id, None when no row
delete_crop_history_result(history_id) ==
    IF history_id \in DOMAIN history THEN Some(history[history_id].field_id) ELSE None

\* Database.delete_crop_history: the DELETE
delete_crop_history(history_id) ==
    history' = Restrict(history, DOMAIN history \ {history_id})

\* Position of a crop name in the order GROUP BY crop lists the groups in
\* (SQLite sorts the rows by the key): "pshenitsa" (U+043F..) before
\* "yachmen" (U+044F..).
CropCollation(crop) ==
    CASE crop = "pshenitsa" -> 1
      [] crop = "yachmen" -> 2
      [] OTHER -> 3

RECURSIVE YieldSum(_)
YieldSum(rows) ==
    IF rows = {} THEN 0
    ELSE LET h == CHOOSE r \in rows : TRUE
         IN  Val(history[h].yield_amount) + YieldSum(rows \ {h})

RECURSIVE StatRows(_, _)
StatRows(rows, crops) ==
    IF crops = {} THEN <<>>
    ELSE LET crop == CHOOSE c \in crops :
                        \A d \in crops : CropCollation(c) <= CropCollation(d)
             group == {h \in rows : history[h].crop = crop}
         IN  <<[crop |-> crop,
                avg_yield |-> [num |-> YieldSum(group), den |-> Cardinality(group)],
                count |-> Cardinality(group)]>>
             \o StatRows(rows, crops \ {crop})

\* Database.get_yield_statistics: "if field_id:" is false for None and 0,
\* and then the rows of every field are taken
get_yield_statistics(field_id) ==
    LET rows == {h \in DOMAIN history :
                   /\ ~IsNone(history[h].yield_amount)
                   /\ \/ IsNone(field_id) \/ Val(field_id) = 0
                      \/ history[h].field_id = Val(field_id)}
    IN  StatRows(rows, {history[h].crop : h \in rows})

\* --------------------------------------------------- the crop_rules table
\* The rules list of _init_crop_rules, each rule with its crop, family and
\* market_price columns: "pshenitsa ozimaya" (winter wheat), "pshenitsa
\* yarovaya", "yachmen yarovoi", "oves", "gorokh", "soya", "lyutserna",
\* "podsolnechnik", "raps yarovoi", "len", "kartofel", "svekla sakharnaya",
\* "kukuruza na zerno", "grechikha".
Rule(crop, family, market_price) ==
    [crop |-> crop, family |-> family, market_price |-> market_price]
Rules ==
    << Rule("pshenitsa ozimaya", "Zlakovye", 15000),
       Rule("pshenitsa yarovaya", "Zlakovye", 14000),
       Rule("yachmen yarovoi", "Zlakovye", 12000),
       Rule("oves", "Zlakovye", 11000),
       Rule("gorokh", "Bobovye", 25000),
       Rule("soya", "Bobovye", 35000),
       Rule("lyutserna", "Bobovye", 18000),
       Rule("podsolnechnik", "Astrovye", 45000),
       Rule("raps yarovoi", "Krestotsvetnye", 28000),
       Rule("len", "Lnovye", 30000),
       Rule("kartofel", "Paslenovye", 20000),
       Rule("svekla sakharnaya", "Amarantovye", 18000),
       Rule("kukuruza na zerno", "Zlakovye", 12000),
       Rule("grechikha", "Grechishnye", 32000) >>

\* INSERT INTO crop_rules without the UNIQUE constraint on crop (used as a
\* faulty variant): every statement adds a row
insert_rule_always(table, seq, rule) ==
    [table |-> [id \in DOMAIN table \cup {seq + 1} |->
                  IF id = seq + 1 THEN rule ELSE table[id]],
     seq |-> seq + 1]

\* INSERT OR IGNORE INTO crop_rules of one rule, on a table and its
\* AUTOINCREMENT counter: crop is UNIQUE, so a rule whose crop is stored is
\* skipped and no stored row changes; the counter advances for a skipped
\* statement as well (SQLite writes sqlite_sequence before the constraint
\* is checked)
insert_or_ignore_rule(table, seq, rule) ==
    IF \E id \in DOMAIN table : table[id].crop = rule.crop
    THEN [table |-> table, seq |-> seq + 1]
    ELSE [table |-> [id \in DOMAIN table \cup {seq + 1} |->
                       IF id = seq + 1 THEN rule ELSE table[id]],
          seq |-> seq + 1]

\* Database._init_crop_rules: the loop over rules from its k-th rule on
RECURSIVE init_crop_rules(_, _, _)
init_crop_rules(table, seq, k) ==
    IF k > Len(Rules) THEN [table |-> table, seq |-> seq]
    ELSE LET inserted == insert_or_ignore_rule(table, seq, Rules[k])
         IN  init_crop_rules(inserted.table, inserted.seq, k + 1)

\* Database.get_all_crop_rules: SELECT * FROM crop_rules, as a set of rows
get_all_crop_rules == {crop_rules[id] : id \in DOMAIN crop_rules}

\* The state of what frame_vars holds (the point lists aside) once the
\* module is loaded on a new database file: Database() has run init_db,
\* which seeds crop_rules; SessionManager() has no session; no request was
\* made and no transaction is open.
Constructed ==
    /\ crop_rules = init_crop_rules(<<>>, 0, 1).table
    /\ rule_seq = init_crop_rules(<<>>, 0, 1).seq
    /\ sessions = <<>>
    /\ request = None
    /\ tx = None

\* ------------------------------------------------------- request handlers
\* One session is modelled: flash_message and flash_error are the two flash
\* slots of the session of the requesting client.  resp is the response
\* (status, redirect or template, id in the redirect url), returned is the
\* value the last Database call of the handler returned.
Redirect(url, arg) == [status |-> 303, url |-> url, arg |-> arg]
Page(template) == [status |-> 200, url |-> template, arg |-> None]
NotFound == [status |-> 404, url |-> "", arg |-> None]
Returned(fn, value) == [fn |-> fn, value |-> value]
NoReturn == Returned("", None)

\* name.strip() is empty
IsBlank(name) == name \in {"", " "}

\* rec_request and recommendations belong to one POST /recommendations
\* request and calculation to one POST /calculator request; any other
\* request has none
NoAdvice ==
    /\ rec_request' = None
    /\ recommendations' = <<>>
    /\ calculation' = None

\* get_flash_messages: pops both slots
get_flash_messages ==
    /\ flash_message' = None
    /\ flash_error' = None

\* POST /fields
create_field(name, area, latitude, longitude, polygon_coords, soil_type) ==
    /\ UNCHANGED frame_vars
    /\ IF IsBlank(name)
       THEN \* "Nazvanie polya ne mozhet byt pustym"
            /\ flash_error' = Some("field name empty")
            /\ resp' = Redirect("/fields", None)
            /\ UNCHANGED <<fields, history, field_seq, history_seq, flash_message>>
            /\ returned' = NoReturn
            /\ NoAdvice
       ELSE IF NonBlank(polygon_coords) /\ ~JsonValid(polygon_coords)
       THEN \* "Nevernyi format poligona"
            /\ flash_error' = Some("polygon format")
            /\ resp' = Redirect("/fields", None)
            /\ UNCHANGED <<fields, history, field_seq, history_seq, flash_message>>
            /\ returned' = NoReturn
            /\ NoAdvice
       ELSE IF NonBlank(polygon_coords)
               /\ (~IsList(polygon_coords) \/ Len(JsonValue(polygon_coords)) < 3)
       THEN \* "Poligon dolzhen soderzhat minimum 3 tochki"
            /\ flash_error' = Some("polygon needs 3 points")
            /\ resp' = Redirect("/fields", None)
            /\ UNCHANGED <<fields, history, field_seq, history_seq, flash_message>>
            /\ returned' = NoReturn
            /\ NoAdvice
       ELSE /\ field_seq < MaxFields
            /\ db_create_field(name, area, latitude, longitude, polygon_coords, soil_type)
            /\ returned' = Returned("create_field", Some(field_seq + 1))
            \* "Pole '{name}' uspeshno sozdano!"
            /\ flash_message' = Some("field created")
            /\ resp' = Redirect("/fields", None)
            /\ UNCHANGED <<history, history_seq, flash_error>>
            /\ NoAdvice

\* GET /fields/{field_id}: the page of a field with its history
read_field(field_id) ==
    /\ UNCHANGED frame_vars
    /\ IF IsNone(get_field(field_id))
       THEN /\ resp' = NotFound
            /\ UNCHANGED <<fields, history, field_seq, history_seq, flash_message, flash_error>>
            /\ returned' = NoReturn
            /\ NoAdvice
       ELSE /\ returned' = Returned("get_field_history", Some(get_field_history(field_id)))
            /\ get_flash_messages
            /\ resp' = Page("field_detail.html")
            /\ UNCHANGED <<fields, history, field_seq, history_seq>>
            /\ NoAdvice

\* the JSON body of a response
Json(url, body) == [status |-> 200, url |-> url, arg |-> Some(body)]

\* GET /api/yield-stats?field_id=...: three arrays filled row by row;
\* "float(avg) if avg else 0" gives 0 for an average of 0.0
get_yield_stats(field_id) ==
    /\ UNCHANGED frame_vars
    /\ LET stats == get_yield_statistics(field_id)
       IN  /\ returned' = Returned("get_yield_statistics", Some(stats))
           /\ resp' = Json("/api/yield-stats",
                           [crops |-> [i \in 1..Len(stats) |-> stats[i].crop],
                            yields |-> [i \in 1..Len(stats) |->
                                          IF stats[i].avg_yield.num # 0
                                          THEN stats[i].avg_yield
                                          ELSE [num |-> 0, den |-> 1]],
                            counts |-> [i \in 1..Len(stats) |-> stats[i].count]])
    /\ UNCHANGED <<fields, history, field_seq, history_seq, flash_message, flash_error>>
    /\ NoAdvice

\* GET /fields/delete/{field_id}
delete_field(field_id) ==
    /\ UNCHANGED frame_vars
    /\ IF IsNone(get_field(field_id))
       THEN /\ resp' = NotFound
            /\ UNCHANGED <<fields, history, field_seq, history_seq, flash_message, flash_error>>
            /\ returned' = NoReturn
            /\ NoAdvice
       ELSE /\ db_delete_field(field_id)
            /\ returned' = Returned("delete_field", Some(db_delete_field_deleted(field_id)))
            /\ IF db_delete_field_deleted(field_id)
               THEN \* "Pole '{name}' uspeshno udaleno!"
                    /\ flash_message' = Some("field deleted")
                    /\ UNCHANGED flash_error
               ELSE \* "Oshibka pri udalenii polya"
                    /\ flash_error' = Some("field delete error")
                    /\ UNCHANGED flash_message
            /\ resp' = Redirect("/fields", None)
            /\ UNCHANGED <<field_seq, history_seq>>
            /\ NoAdvice

\* POST /history/add
create_history_with_map(field_id, year, season, crop, yield_amount, notes) ==
    /\ UNCHANGED frame_vars
    /\ /\ history_seq < MaxHistory
       /\ add_crop_history(field_id, year, season, crop, yield_amount, notes)
       /\ returned' = Returned("add_crop_history", Some(history_seq + 1))
       \* "Zapis istorii uspeshno dobavlena!"
       /\ flash_message' = Some("history added")
       /\ resp' = Redirect("/fields/{field_id}", Some(field_id))
       /\ UNCHANGED <<fields, field_seq, flash_error>>
       /\ NoAdvice

\* POST /fields/{field_id}/history that also enters the crop of the form
\* into crop_rules (used as a faulty variant)
add_field_history_learning(field_id, year, season, crop, yield_amount, notes) ==
    /\ UNCHANGED <<area_vars, session_vars, tx>>
    /\ LET learned == insert_or_ignore_rule(crop_rules, rule_seq, Rule(crop, "", 0))
       IN  /\ crop_rules' = learned.table
           /\ rule_seq' = learned.seq
    /\ /\ history_seq < MaxHistory
       /\ add_crop_history(field_id, year, season, crop, yield_amount, notes)
       /\ returned' = Returned("add_crop_history", Some(history_seq + 1))
       /\ flash_message' = Some("history added")
       /\ resp' = Redirect("/fields/{field_id}", Some(field_id))
       /\ UNCHANGED <<fields, field_seq, flash_error>>
       /\ NoAdvice

\* POST /fields/{field_id}/history
add_field_history(field_id, year, season, crop, yield_amount, notes) ==
    /\ UNCHANGED frame_vars
    /\ /\ history_seq < MaxHistory
       /\ add_crop_history(field_id, year, season, crop, yield_amount, notes)
       /\ returned' = Returned("add_crop_history", Some(history_seq + 1))
       \* "Zapis istorii uspeshno dobavlena!"
       /\ flash_message' = Some("history added")
       /\ resp' = Redirect("/fields/{field_id}", Some(field_id))
       /\ UNCHANGED <<fields, field_seq, flash_error>>
       /\ NoAdvice

\* GET /history/delete/{history_id}; "if field_id:" is false for None and 0
delete_history(history_id) ==
    /\ UNCHANGED frame_vars
    /\ LET field_id == delete_crop_history_result(history_id)
       IN  /\ delete_crop_history(history_id)
           /\ returned' = Returned("delete_crop_history", field_id)
           /\ IF ~IsNone(field_id) /\ Val(field_id) # 0
              THEN \* "Zapis istorii uspeshno udalena!"
                   /\ flash_message' = Some("history deleted")
                   /\ resp' = Redirect("/fields/{field_id}", field_id)
                   /\ UNCHANGED flash_error
              ELSE \* "Oshibka pri udalenii zapisi istorii"
                   /\ flash_error' = Some("history delete error")
                   /\ resp' = Redirect("/fields", None)
                   /\ UNCHANGED flash_message
           /\ UNCHANGED <<fields, field_seq, history_seq>>
           /\ NoAdvice

\* Database.get_history_entry: crop_history JOIN fields ... WHERE ch.id = ?;
\* the row, or None when the id is not stored or its field is not stored
get_history_entry(history_id) ==
    IF history_id \in DOMAIN history /\ history[history_id].field_id \in DOMAIN fields
    THEN Some(history[history_id])
    ELSE None

\* POST /history/edit/{history_id} that writes the form into the entry (used
\* as a faulty variant)
update_history_applied(history_id, year, season, crop, yield_amount, notes) ==
    /\ UNCHANGED frame_vars
    /\ LET entry == get_history_entry(history_id)
       IN  IF IsNone(entry)
           THEN /\ resp' = NotFound
                /\ UNCHANGED <<history, flash_message>>
           ELSE /\ history' = [history EXCEPT ![history_id] =
                                 [field_id |-> Val(entry).field_id, year |-> year,
                                  season |-> season, crop |-> crop,
                                  yield_amount |-> yield_amount, notes |-> notes]]
                /\ flash_message' = Some("history updated")
                /\ resp' = Redirect("/fields/{field_id}", Some(Val(entry).field_id))
    /\ returned' = Returned("get_history_entry", get_history_entry(history_id))
    /\ UNCHANGED <<fields, field_seq, history_seq, flash_error>>
    /\ NoAdvice

\* POST /history/edit/{history_id}: no statement of the handler writes the
\* store ("in a real application the update code would be here")
update_history(history_id, year, season, crop, yield_amount, notes) ==
    /\ UNCHANGED frame_vars
    /\ LET entry == get_history_entry(history_id)
       IN  IF IsNone(entry)
           THEN /\ resp' = NotFound
                /\ UNCHANGED flash_message
           ELSE \* "Zapis istorii uspeshno obnovlena!"
                /\ flash_message' = Some("history updated")
                /\ resp' = Redirect("/fields/{field_id}", Some(Val(entry).field_id))
    /\ returned' = Returned("get_history_entry", get_history_entry(history_id))
    /\ UNCHANGED <<fields, history, field_seq, history_seq, flash_error>>
    /\ NoAdvice

\* GET /api/fields/{field_id}/geojson
\* "geometry": {"type": "Polygon", "coordinates": [coordinates]}
Geometry(coordinates) == [type |-> "Polygon", coordinates |-> <<coordinates>>]

\* the feature list: one Feature when polygon_coords is a non-empty text
\* that json.loads parses, none for NULL, "" and a text json.loads raises on
Features(field_id, field) ==
    IF Truthy(field.polygon_coords) /\ JsonValid(field.polygon_coords)
    THEN <<[type |-> "Feature",
            properties |-> [id |-> field_id,
                            name |-> field.name,
                            area |-> field.area,
                            soil_type |-> field.soil_type,
                            created_at |-> field.created_at],
            geometry |-> Geometry(JsonValue(field.polygon_coords))]>>
    ELSE <<>>

get_field_geojson(field_id) ==
    /\ UNCHANGED frame_vars
    /\ LET field == get_field(field_id)
       IN  /\ returned' = Returned("get_field", field)
           /\ IF IsNone(field)
              THEN resp' = NotFound
              ELSE resp' = Json("/api/fields/{field_id}/geojson",
                                [type |-> "FeatureCollection",
                                 features |-> Features(field_id, Val(field))])
    /\ UNCHANGED <<fields, history, field_seq, history_seq, flash_message, flash_error>>
    /\ NoAdvice

\* ---------------------------------------------------------------- restart
\* The process is started again on the database file it left.  database.py
\* line 745, db = Database(), runs init_db: CREATE TABLE IF NOT EXISTS keeps
\* the stored tables and _init_crop_rules runs its INSERT OR IGNORE loop on
\* crop_rules.  app.py line 60 makes a new SessionManager, so every session
\* and its flash slots are gone; a transaction left open is rolled back.
restart ==
    /\ rule_seq < Len(Rules) * (1 + MaxRestarts)
    /\ LET seeded == init_crop_rules(crop_rules, rule_seq, 1)
       IN  /\ crop_rules' = seeded.table
           /\ rule_seq' = seeded.seq
    /\ sessions' = <<>>
    /\ request' = None
    /\ tx' = None
    /\ flash_message' = None
    /\ flash_error' = None
    /\ UNCHANGED <<fields, history, field_seq, history_seq, resp, returned, area_vars>>
    /\ NoAdvice

\* ------------------------------------------------- POST /recommendations
\* An entry of the recommendations list.  subject is the crop or the soil
\* type the f-string puts into the message ("" when none), area the number
\* it puts in (None when none), advice the fixed text.
Rec(type, title, subject, area, advice) ==
    [type |-> type, title |-> title, subject |-> subject, area |-> area,
     advice |-> advice]

\* soil_recommendations.get(soil_type, <generic advice>)
\*   "suglinok" (loam), "chernozem", "peschanaya" (sandy),
\*   "glinistaya" (clay), "torfyanaya" (peat)
SoilAdvice(soil_type) ==
    CASE soil_type = "suglinok" -> "good for most crops"
      [] soil_type = "chernozem" -> "excellent for all crops"
      [] soil_type = "peschanaya" -> "needs more watering and fertilizer"
      [] soil_type = "glinistaya" -> "needs better drainage"
      [] soil_type = "torfyanaya" -> "needs liming"
      [] OTHER -> "verify that the crop matches the soil type"

\* the sentinel 'ne ukazan' (unspecified)
SoilUnspecified == "ne ukazan"

SeasonAdvice(current_month) ==
    IF current_month \in {3, 4, 5} THEN "spring planting"
    ELSE IF current_month \in {6, 7, 8} THEN "summer sowing or autumn preparation"
    ELSE "autumn planting of winter crops"

\* area in hundredths of a hectare: 5 ha = 500, 20 ha = 2000
AreaAdvice(area) ==
    IF area < 500 THEN "small area, intensive techniques"
    ELSE IF area < 2000 THEN "medium area, standard techniques"
    ELSE "large area, mechanized techniques"

\* same_crop_recently with the year test written as "newer than 3 years"
RepetitionRec_strict(field_history, target_crop, now_year) ==
    LET recent_years == SelectSeq(field_history, LAMBDA r : r.year > now_year - 3)
        same_crop_recently ==
            \E i \in 1..Len(recent_years) : recent_years[i].crop = target_crop
    IN  IF same_crop_recently
        THEN Rec("warning", "repeated planting", target_crop, None,
                 "grown in the last 3 years, choose another crop")
        ELSE Rec("success", "good choice", target_crop, None,
                 "fits the rotation of this field")

\* lines 517-531: the repetition message
RepetitionRec(field_history, target_crop, now_year) ==
    LET recent_years == SelectSeq(field_history, LAMBDA r : r.year >= now_year - 3)
        same_crop_recently ==
            \E i \in 1..Len(recent_years) : recent_years[i].crop = target_crop
    IN  IF same_crop_recently
        THEN Rec("warning", "repeated planting", target_crop, None,
                 "grown in the last 3 years, choose another crop")
        ELSE Rec("success", "good choice", target_crop, None,
                 "fits the rotation of this field")

\* lines 534-549 with every soil type given the table advice or the generic one
SoilRecs_nosentinel(soil_type) ==
    <<Rec("info", "soil type", soil_type, None, SoilAdvice(soil_type))>>

\* lines 534-549: the soil message, none for the sentinel
SoilRecs(soil_type) ==
    IF soil_type # SoilUnspecified
    THEN <<Rec("info", "soil type", soil_type, None, SoilAdvice(soil_type))>>
    ELSE <<>>

\* lines 552-564 with the summer months taken as 6..9
SeasonRec_shifted(current_month) ==
    Rec("info", "seasonal recommendations", "", None,
        IF current_month \in {3, 4, 5} THEN "spring planting"
        ELSE IF current_month \in {6, 7, 8, 9} THEN "summer sowing or autumn preparation"
        ELSE "autumn planting of winter crops")

\* lines 552-564: the seasonal message
SeasonRec(current_month) ==
    Rec("info", "seasonal recommendations", "", None, SeasonAdvice(current_month))

\* lines 568-580 with the note also given for an area of 0
AreaRecs_nonneg(area) ==
    IF area >= 0
    THEN <<Rec("info", "field area", "", Some(area), AreaAdvice(area))>>
    ELSE <<>>

\* lines 568-580, area a number
AreaRecs(area) ==
    IF area > 0
    THEN <<Rec("info", "field area", "", Some(area), AreaAdvice(area))>>
    ELSE <<>>

\* rec_request is the form of the request (field_id, target_crop) with the
\* two readings of the clock it uses; now_year and now_month are
\* datetime.now().year and .month.
\* field.get('area', 0) is None for a row whose area column is NULL, and
\* "None > 0" raises TypeError: the except branch flashes an error and
\* redirects, the list built so far is not rendered.
get_recommendations(field_id, target_crop, now_year, now_month) ==
    /\ UNCHANGED frame_vars
    /\ LET field == get_field(field_id)
       IN  /\ calculation' = None
           /\ rec_request' = Some([field_id |-> field_id, target_crop |-> target_crop,
                                   now_year |-> now_year, now_month |-> now_month])
           /\ IF IsNone(field)
              THEN \* "Pole ne naideno"
                   /\ flash_error' = Some("field not found")
                   /\ resp' = Redirect("/recommendations", None)
                   /\ recommendations' = <<>>
                   /\ UNCHANGED <<fields, history, field_seq, history_seq, flash_message>>
                   /\ returned' = NoReturn
              ELSE LET field_history == get_field_history(field_id)
                       head == <<RepetitionRec(field_history, target_crop, now_year)>>
                               \o SoilRecs(Val(field).soil_type)
                               \o <<SeasonRec(now_month)>>
                       area == Val(field).area
                   IN  IF IsNone(area)
                       THEN \* "Oshibka pri formirovanii rekomendatsii"
                            /\ recommendations' = head
                            /\ flash_error' = Some("recommendations error")
                            /\ resp' = Redirect("/recommendations", None)
                            /\ UNCHANGED <<fields, history, field_seq, history_seq, flash_message>>
                            /\ returned' = NoReturn
                       ELSE /\ recommendations' = head \o AreaRecs(Val(area))
                            /\ get_flash_messages
                            /\ resp' = Page("recommendations.html")
                            /\ UNCHANGED <<fields, history, field_seq, history_seq>>
                            /\ returned' = NoReturn

\* ------------------------------------------------------ the record store
\* Form values of the requests.
TriangleText == ListText(<<<<0, 0>>, <<0, 8>>, <<8, 0>>>>)
TwoPointText == ListText(<<<<0, 0>>, <<0, 8>>>>)
\* the forms posted to /fields, as <<name, area, polygon_coords>>: a typed
\* area, a blank name, a drawn triangle, a drawn line of two points, and a
\* polygon text that is not JSON
StoreForms ==
    { <<"Pole", Some(1000), EmptyText>>,
      <<" ", Some(1000), EmptyText>>,
      <<"Pole", None, TriangleText>>,
      <<"Pole", Some(1000), TwoPointText>>,
      <<"Pole", None, InvalidText>> }
FieldIds == 1..MaxFields
HistoryIds == 1..MaxHistory

\* the state after Database() on a new file and SessionManager(): empty
\* tables, one session without flash
Init ==
    /\ fields = <<>>
    /\ history = <<>>
    /\ field_seq = 0
    /\ history_seq = 0
    /\ flash_message = None
    /\ flash_error = None
    /\ resp = Page("index.html")
    /\ returned = NoReturn
    /\ rec_request = None
    /\ recommendations = <<>>
    /\ calculation = None
    /\ area_origin = <<>>
    /\ area_input = <<>>
    /\ area_first = 0
    /\ area_output = 0
    /\ Constructed

Next ==
    \/ \E form \in StoreForms :
          create_field(form[1], form[2], None, None, form[3], "suglinok")
    \/ \E field_id \in FieldIds : delete_field(field_id)
    \/ \E field_id \in FieldIds :
          create_history_with_map(field_id, 2024, "vesna", "pshenitsa", None, None)
    \/ \E field_id \in FieldIds :
          add_field_history(field_id, 2024, "leto", "yachmen", Some(30), None)
    \/ \E history_id \in HistoryIds : delete_history(history_id)

Spec == Init /\ [][Next]_vars

\* ------------------------------------------------- the rotation advisor
\* A store holding one field, as POST /fields leaves it, for every area and
\* soil type the form can send; requests add history and ask for advice.
RecAreas == {None, Some(0), Some(0 - 100), Some(499), Some(500), Some(1999), Some(2000)}
RecSoils == {"suglinok", "chernozem", "peschanaya", "glinistaya", "torfyanaya",
             "solonchak", SoilUnspecified}
RecCrops == {"pshenitsa", "yachmen"}
RecYears == {2020, 2021}
\* <<area, soil_type>> of the stored field: every area with a known soil type
\* and with the sentinel, every soil type with a small area and without area
RecFields == (RecAreas \X {"suglinok", SoilUnspecified})
             \cup ({None, Some(499)} \X RecSoils)
\* <<year, month>> of datetime.now(): every month of 2024 and January 2025
NowDates == ({2024} \X (1..12)) \cup {<<2025, 1>>}

InitRec ==
    /\ \E f \in RecFields :
          fields = [id \in {1} |->
                      db_create_field_row("Pole", f[1], None, None, EmptyText, f[2])]
    /\ history = <<>>
    /\ field_seq = 1
    /\ history_seq = 0
    /\ flash_message = Some("field created")
    /\ flash_error = None
    /\ resp = Redirect("/fields", None)
    /\ returned = Returned("create_field", Some(1))
    /\ rec_request = None
    /\ recommendations = <<>>
    /\ calculation = None
    /\ area_origin = <<>>
    /\ area_input = <<>>
    /\ area_first = 0
    /\ area_output = 0
    /\ Constructed

NextRec ==
    \/ \E year \in RecYears, crop \in RecCrops :
          add_field_history(1, year, "vesna", crop, None, None)
    \/ create_history_with_map(2, 2021, "vesna", "pshenitsa", None, None)
    \/ \E target_crop \in RecCrops, now \in NowDates :
          get_recommendations(1, target_crop, now[1], now[2])
    \/ \E target_crop \in RecCrops :
          get_recommendations(2, target_crop, 2024, 1)

SpecRec == InitRec /\ [][NextRec]_vars

\* ------------------------------------------------------ POST /calculator
\* prices.get(crop, {"cost_per_ha": 20000, "income_per_ha": 40000}); the keys
\* are "pshenitsa" (wheat), "kartofel", "podsolnechnik", "gorokh", "yachmen",
\* "kukuruza", "oves", "soya", "rozh", "grechikha", "len"
Prices(crop) ==
    CASE crop = "pshenitsa" -> [cost_per_ha |-> 15000, income_per_ha |-> 30000]
      [] crop = "kartofel" -> [cost_per_ha |-> 50000, income_per_ha |-> 80000]
      [] crop = "podsolnechnik" -> [cost_per_ha |-> 25000, income_per_ha |-> 45000]
      [] crop = "gorokh" -> [cost_per_ha |-> 18000, income_per_ha |-> 35000]
      [] crop = "yachmen" -> [cost_per_ha |-> 14000, income_per_ha |-> 28000]
      [] crop = "kukuruza" -> [cost_per_ha |-> 30000, income_per_ha |-> 60000]
      [] crop = "oves" -> [cost_per_ha |-> 13000, income_per_ha |-> 25000]
      [] crop = "soya" -> [cost_per_ha |-> 22000, income_per_ha |-> 45000]
      [] crop = "rozh" -> [cost_per_ha |-> 12000, income_per_ha |-> 24000]
      [] crop = "grechikha" -> [cost_per_ha |-> 16000, income_per_ha |-> 32000]
      [] crop = "len" -> [cost_per_ha |-> 20000, income_per_ha |-> 40000]
      [] OTHER -> [cost_per_ha |-> 20000, income_per_ha |-> 40000]

\* A quotient of two floats, kept as the fraction num / den.
Fraction(num, den) == [num |-> num, den |-> den]

\* line 652 with the test "total_cost != 0"
Profitability_nonzero(profit, total_cost) ==
    IF total_cost # 0 THEN Fraction(profit * 100, total_cost) ELSE Fraction(0, 1)

\* line 652: (profit / total_cost) * 100 if total_cost > 0 else 0
Profitability(profit, total_cost) ==
    IF total_cost > 0 THEN Fraction(profit * 100, total_cost) ELSE Fraction(0, 1)

\* The area of the calculator form counts whole hectares.  calculation is
\* the part of the template context the handler computes.
calculate_economics(crop, area) ==
    /\ UNCHANGED frame_vars
    /\ LET crop_data == Prices(crop)
           total_cost == crop_data.cost_per_ha * area
           total_income == crop_data.income_per_ha * area
           profit == total_income - total_cost
       IN  calculation' = Some([crop |-> crop, area |-> area,
                                total_cost |-> total_cost,
                                total_income |-> total_income,
                                profit |-> profit,
                                profitability |-> Profitability(profit, total_cost),
                                cost_per_ha |-> crop_data.cost_per_ha,
                                income_per_ha |-> crop_data.income_per_ha])
    /\ get_flash_messages
    /\ resp' = Page("calculator.html")
    /\ returned' = NoReturn
    /\ rec_request' = None
    /\ recommendations' = <<>>
    /\ UNCHANGED <<fields, history, field_seq, history_seq>>

CalcCrops == {"pshenitsa", "kartofel", "podsolnechnik", "gorokh", "yachmen",
              "kukuruza", "oves", "soya", "rozh", "grechikha", "len", "ris"}
CalcAreas == {0 - 1, 0, 1, 2, 5, 10, 20, 50, 100}

NextCalc ==
    \E crop \in CalcCrops, area \in CalcAreas : calculate_economics(crop, area)

SpecCalc == Init /\ [][NextCalc]_vars

\* ------------------------------------------- _calculate_polygon_area alone
\* Point lists of 0 to MaxPoints points: every list over a grid of whole
\* and fractional degrees near the origin, and every list over three
\* far-apart points at high latitude and longitude.
MaxPoints == 3
NearPoints == {0, 8, 20} \X {0, 8, 12}
FarPoints == {<<496, 1413>>, <<0 - 313, 1292>>, <<157, 1362>>}
ListsOver(points) == UNION {[1..n -> points] : n \in 0..MaxPoints}
AreaPolygons == ListsOver(NearPoints) \cup ListsOver(FarPoints)

\* coords[k:] + coords[:k] for k = 1
Rotated(coords) == IF coords = <<>> THEN <<>> ELSE Tail(coords) \o <<Head(coords)>>
\* coords[::-1]
Reversed(coords) == [i \in 1..Len(coords) |-> coords[Len(coords) + 1 - i]]

InitArea ==
    /\ fields = <<>>
    /\ history = <<>>
    /\ field_seq = 0
    /\ history_seq = 0
    /\ flash_message = None
    /\ flash_error = None
    /\ resp = Page("index.html")
    /\ returned = NoReturn
    /\ rec_request = None
    /\ recommendations = <<>>
    /\ calculation = None
    /\ area_origin \in AreaPolygons
    /\ area_input = area_origin
    /\ area_first = calculate_polygon_area(area_origin)
    /\ area_output = area_first
    /\ Constructed

\* the area of the same polygon, its point list started one point later
area_of_rotated ==
    /\ area_input' = Rotated(area_input)
    /\ area_output' = calculate_polygon_area(area_input')
    /\ UNCHANGED <<area_origin, area_first>>
    /\ UNCHANGED <<fields, history, field_seq, history_seq, flash_message, flash_error,
                   resp, returned, rec_request, recommendations, calculation>>
    /\ UNCHANGED <<rule_vars, session_vars, tx>>

\* the area of the same polygon, its point list in the opposite order
area_of_reversed ==
    /\ area_input' = Reversed(area_input)
    /\ area_output' = calculate_polygon_area(area_input')
    /\ UNCHANGED <<area_origin, area_first>>
    /\ UNCHANGED <<fields, history, field_seq, history_seq, flash_message, flash_error,
                   resp, returned, rec_request, recommendations, calculation>>
    /\ UNCHANGED <<rule_vars, session_vars, tx>>

NextArea == area_of_rotated \/ area_of_reversed

SpecArea == InitArea /\ [][NextArea]_vars

\* ------------------------------------- Database.create_field / update_field
\* Calls of the two Database methods themselves, next to POST /fields; no
\* request handler calls update_field.
Database_create_field(name, area, polygon_coords) ==
    /\ UNCHANGED frame_vars
    /\ field_seq < MaxFields
    /\ db_create_field(name, area, None, None, polygon_coords, "suglinok")
    /\ returned' = Returned("create_field", Some(field_seq + 1))
    /\ UNCHANGED <<history, history_seq, flash_message, flash_error, resp>>
    /\ NoAdvice

Database_update_field(field_id, name, area, polygon_coords) ==
    /\ UNCHANGED frame_vars
    /\ db_update_field(field_id, name, area, polygon_coords)
    /\ returned' = Returned("update_field", Some(db_update_field_updated(field_id)))
    /\ UNCHANGED <<history, field_seq, history_seq, flash_message, flash_error, resp>>
    /\ NoAdvice

\* polygon texts: [[0,0],[0,2],[2,2],[2,0]], [[1,0.5],[0,1],[0.5,0]],
\* [[1,1]], [[0,0],[0,1]], [], [1,2,3], 5, not JSON, white space, ""
SquareText == ListText(<<<<0, 0>>, <<0, 16>>, <<16, 16>>, <<16, 0>>>>)
SkewTriangleText == ListText(<<<<8, 4>>, <<0, 8>>, <<4, 0>>>>)
OnePointText == ListText(<<<<8, 8>>>>)
EmptyListText == ListText(<<>>)
NumbersText == ScalarsText(<<1, 2, 3>>)
GeoTexts == {SkewTriangleText, OnePointText, TwoPointText, EmptyListText,
             NumbersText, NumberText, InvalidText, BlankText, EmptyText}
\* <<area, polygon_coords>> of a creation: every text without an area, and
\* a typed area with and without a polygon
GeoForms == ({None} \X GeoTexts)
            \cup {<<Some(1000), SkewTriangleText>>, <<Some(1000), EmptyText>>}
\* <<name, area, polygon_coords>> of an update
GeoUpdates == {<<"Novoe", None, SquareText>>, <<"Novoe", Some(1000), OnePointText>>,
               <<"Novoe", None, EmptyListText>>, <<"Novoe", None, InvalidText>>,
               <<"Novoe", Some(1000), EmptyText>>}

NextGeo ==
    \/ \E form \in GeoForms : create_field("Pole", form[1], None, None, form[2], "suglinok")
    \/ \E form \in GeoForms : Database_create_field("Pole", form[1], form[2])
    \/ \E field_id \in FieldIds, form \in GeoUpdates :
          Database_update_field(field_id, form[1], form[2], form[3])

SpecGeo == Init /\ [][NextGeo]_vars

\* ------------------------------------------------- the forms of POST /fields
\* a name of 101 characters
LongName == "Pole-------------------------------------------------------------------------------------------------"
\* a triangle with a vertex at latitude 91
FarVertexText == ListText(<<<<0, 0>>, <<0, 1>>, <<728, 0>>>>)
\* <<name, area, latitude, longitude, polygon_coords>>: a plain form, and
\* forms that differ from it in the name, the area, the point or the polygon
FieldForms ==
    {<<"Pole", Some(1000), None, None, EmptyText>>,
     <<"Pole", Some(1000), Some(440), Some(300), SkewTriangleText>>,
     <<" ", Some(1000), None, None, EmptyText>>,
     <<LongName, Some(1000), None, None, EmptyText>>,
     <<"Pole", Some(0), None, None, EmptyText>>,
     <<"Pole", Some(0 - 100), None, None, EmptyText>>,
     <<"Pole", Some(1000), Some(728), Some(300), EmptyText>>,
     <<"Pole", Some(1000), Some(440), Some(0 - 1448), EmptyText>>,
     <<"Pole", None, None, None, FarVertexText>>}
    \cup {<<"Pole", None, None, None, text>> : text \in GeoTexts}

NextForm ==
    \/ \E form \in FieldForms :
          create_field(form[1], form[2], form[3], form[4], form[5], "suglinok")
    \/ \E field_id \in FieldIds : delete_field(field_id)
    \/ \E field_id \in FieldIds : get_field_geojson(field_id)

SpecForm == Init /\ [][NextForm]_vars

\* ------------------------------------------------- the history of a field
\* entries of the years 2023 and 2024 in the seasons 'vesna' (spring),
\* 'leto' (summer), 'osen' (autumn) and 'zima' (winter)
HistYears == {2023, 2024}
HistSeasons == {"vesna", "leto", "osen", "zima"}

\* <<year, season, crop, yield_amount>> of the edit form: values no stored
\* entry has, and the values of an entry that can be stored
EditForms == {<<2022, "zima", "yachmen", Some(30)>>, <<2024, "vesna", "pshenitsa", None>>}

NextHist ==
    \/ create_field("Pole", Some(1000), None, None, EmptyText, "suglinok")
    \/ \E field_id \in FieldIds : read_field(field_id)
    \/ \E field_id \in FieldIds : delete_field(field_id)
    \/ \E year \in HistYears, season \in HistSeasons :
          add_field_history(1, year, season, "pshenitsa", None, None)
    \/ create_history_with_map(2, 2024, "vesna", "pshenitsa", None, None)
    \/ \E history_id \in HistoryIds : delete_history(history_id)
    \/ \E history_id \in HistoryIds, form \in EditForms :
          update_history(history_id, form[1], form[2], form[3], form[4], None)

SpecHist == Init /\ [][NextHist]_vars

\* ------------------------------------------------------ yield statistics
\* entries of two fields and two crops, without a yield and with the yields
\* 0, 30 and 50; statistics of every field, of the id 0 and of no field
StatYields == {None, Some(0), Some(30), Some(50)}
StatFieldIds == {None, Some(0), Some(1), Some(2)}

NextStats ==
    \/ \E field_id \in {1, 2}, crop \in {"pshenitsa", "yachmen"}, yield_amount \in StatYields :
          add_field_history(field_id, 2024, "vesna", crop, yield_amount, None)
    \/ \E field_id \in StatFieldIds : get_yield_stats(field_id)
    \/ \E history_id \in HistoryIds : delete_history(history_id)

SpecStats == Init /\ [][NextStats]_vars

\* ------------------------------------- Database.delete_field by statement
\* Database.delete_field run one statement at a time.  tx is the open
\* transaction of its connection: the id given, the number of statements
\* executed, the tables as the connection sees them (its own uncommitted
\* writes included) and the rowcount of its last statement.  fields and
\* history stay the committed tables, what any other connection reads.
\* sqlite3 opens a transaction before the first DELETE and conn.commit()
\* ends it; a connection dropped without commit is rolled back.
Transaction(field_id, pc, tx_fields, tx_history, rowcount) ==
    Some([field_id |-> field_id, pc |-> pc, fields |-> tx_fields,
          history |-> tx_history, rowcount |-> rowcount])

\* conn = self.get_connection(); cursor = conn.cursor()
delete_field_connect(field_id) ==
    /\ tx = None
    /\ tx' = Transaction(field_id, 0, fields, history, 0)
    /\ returned' = NoReturn
    /\ UNCHANGED <<fields, history, field_seq, history_seq, flash_message, flash_error, resp>>
    /\ UNCHANGED <<area_vars, rule_vars, session_vars>>
    /\ NoAdvice

\* a connection in autocommit mode: every DELETE is committed as it is
\* executed (used as a faulty variant)
delete_field_execute_autocommit ==
    /\ tx # None
    /\ Val(tx).pc < 3
    /\ LET t == Val(tx)
           kept == {h \in DOMAIN t.history : t.history[h].field_id # t.field_id}
       IN  CASE t.pc = 0 ->
                  /\ history' = Restrict(history, kept)
                  /\ fields' = fields
                  /\ tx' = Transaction(t.field_id, 1, t.fields, Restrict(t.history, kept),
                                       Cardinality(DOMAIN t.history \ kept))
             [] t.pc = 1 ->
                  /\ UNCHANGED <<fields, history>>
                  /\ tx' = Transaction(t.field_id, 2, t.fields, t.history, 0)
             [] t.pc = 2 ->
                  /\ fields' = Restrict(fields, DOMAIN fields \ {t.field_id})
                  /\ history' = history
                  /\ tx' = Transaction(t.field_id, 3,
                                       Restrict(t.fields, DOMAIN t.fields \ {t.field_id}),
                                       t.history,
                                       IF t.field_id \in DOMAIN t.fields THEN 1 ELSE 0)
    /\ UNCHANGED <<field_seq, history_seq, flash_message, flash_error, resp, returned>>
    /\ UNCHANGED <<area_vars, rule_vars, session_vars>>
    /\ NoAdvice

\* the next cursor.execute: DELETE FROM crop_history WHERE field_id = ?,
\* DELETE FROM climate_data WHERE field_id = ? (a table the model leaves
\* out), DELETE FROM fields WHERE id = ?; each writes the tables of the
\* transaction only
delete_field_execute ==
    /\ tx # None
    /\ Val(tx).pc < 3
    /\ LET t == Val(tx)
           kept == {h \in DOMAIN t.history : t.history[h].field_id # t.field_id}
       IN  CASE t.pc = 0 ->
                  tx' = Transaction(t.field_id, 1, t.fields, Restrict(t.history, kept),
                                    Cardinality(DOMAIN t.history \ kept))
             [] t.pc = 1 ->
                  tx' = Transaction(t.field_id, 2, t.fields, t.history, 0)
             [] t.pc = 2 ->
                  tx' = Transaction(t.field_id, 3,
                                    Restrict(t.fields, DOMAIN t.fields \ {t.field_id}),
                                    t.history,
                                    IF t.field_id \in DOMAIN t.fields THEN 1 ELSE 0)
    /\ UNCHANGED <<fields, history, field_seq, history_seq, flash_message, flash_error,
                   resp, returned>>
    /\ UNCHANGED <<area_vars, rule_vars, session_vars>>
    /\ NoAdvice

\* deleted = cursor.rowcount > 0; conn.commit(); conn.close(); return deleted
delete_field_commit ==
    /\ tx # None
    /\ Val(tx).pc = 3
    /\ fields' = Val(tx).fields
    /\ history' = Val(tx).history
    /\ tx' = None
    /\ returned' = Returned("delete_field", Some(Val(tx).rowcount > 0))
    /\ UNCHANGED <<field_seq, history_seq, flash_message, flash_error, resp>>
    /\ UNCHANGED <<area_vars, rule_vars, session_vars>>
    /\ NoAdvice

\* a cursor.execute or conn.commit() raises (the storage fails): the method
\* has no try, the exception leaves it with the transaction open, and the
\* connection is dropped, which rolls the transaction back
delete_field_raise ==
    /\ tx # None
    /\ tx' = None
    /\ returned' = Returned("delete_field raised",
                            Some([field_id |-> Val(tx).field_id, executed |-> Val(tx).pc]))
    /\ UNCHANGED <<fields, history, field_seq, history_seq, flash_message, flash_error, resp>>
    /\ UNCHANGED <<area_vars, rule_vars, session_vars>>
    /\ NoAdvice

\* Requests are handled one at a time (the handlers are coroutines that
\* never await inside a Database call), so no other handler runs while the
\* transaction is open.
NextTx ==
    \/ tx = None /\ create_field("Pole", Some(1000), None, None, EmptyText, "suglinok")
    \/ \E field_id \in FieldIds, year \in HistYears :
          /\ tx = None
          /\ field_id \in DOMAIN fields
          /\ add_field_history(field_id, year, "vesna", "pshenitsa", None, None)
    \/ \E field_id \in FieldIds : delete_field_connect(field_id)
    \/ delete_field_execute
    \/ delete_field_commit
    \/ delete_field_raise

SpecTx == Init /\ [][NextTx]_vars

\* -------------------------------------------------------- SessionManager
\* sessions is SessionManager.sessions of the process, a dict from session
\* id to the two flash slots (created_at, read by nothing, is left out).
\* A session id is str(uuid.uuid4()): the ids are the numbers 1..MaxSessions
\* and create_session gets one that is no key of the dict (a repeated
\* uuid4 is not modelled).  The cookie of a request is None when the
\* request has none, else the text sent; 0 is a text that is never the id
\* of a session.
SessionIds == 1..MaxSessions
Cookies == {None} \cup {Some(id) : id \in 0..MaxSessions}
NoFlash == [flash_message |-> None, flash_error |-> None]

\* SessionManager.create_session, for the uuid drawn
SessionManager_create_session(map, session_id) ==
    [id \in DOMAIN map \cup {session_id} |->
       IF id = session_id THEN NoFlash ELSE map[id]]

\* SessionManager.get_session: self.sessions.get(session_id)
SessionManager_get_session(map, session_id) ==
    IF session_id \in DOMAIN map THEN Some(map[session_id]) ELSE None

\* set_flash_message that makes the entry of an id it does not find (used
\* as a faulty variant)
SessionManager_set_flash_message_setdefault(map, session_id, message) ==
    [id \in DOMAIN map \cup {session_id} |->
       IF id = session_id
       THEN [flash_message |-> Some(message),
             flash_error |-> IF id \in DOMAIN map THEN map[id].flash_error ELSE None]
       ELSE map[id]]

\* SessionManager.set_flash_message: only "if session_id in self.sessions"
SessionManager_set_flash_message(map, session_id, message) ==
    IF session_id \in DOMAIN map
    THEN [map EXCEPT ![session_id].flash_message = Some(message)]
    ELSE map

\* SessionManager.set_flash_error
SessionManager_set_flash_error(map, session_id, message) ==
    IF session_id \in DOMAIN map
    THEN [map EXCEPT ![session_id].flash_error = Some(message)]
    ELSE map

\* SessionManager.pop_flash_message: the value returned and the dict left
SessionManager_pop_flash_message(map, session_id) ==
    IF session_id \in DOMAIN map
    THEN [value |-> map[session_id].flash_message,
          sessions |-> [map EXCEPT ![session_id].flash_message = None]]
    ELSE [value |-> None, sessions |-> map]

\* pop_flash_error that drops a session once it has popped its error (used
\* as a faulty variant)
SessionManager_pop_flash_error_expiring(map, session_id) ==
    IF session_id \in DOMAIN map
    THEN [value |-> map[session_id].flash_error,
          sessions |-> IF IsNone(map[session_id].flash_error)
                       THEN [map EXCEPT ![session_id].flash_error = None]
                       ELSE Restrict(map, DOMAIN map \ {session_id})]
    ELSE [value |-> None, sessions |-> map]

\* SessionManager.pop_flash_error
SessionManager_pop_flash_error(map, session_id) ==
    IF session_id \in DOMAIN map
    THEN [value |-> map[session_id].flash_error,
          sessions |-> [map EXCEPT ![session_id].flash_error = None]]
    ELSE [value |-> None, sessions |-> map]

\* get_flash_messages(request) for the session id of the request: the dict
\* returned and SessionManager.sessions left
session_get_flash_messages(map, session_id) ==
    LET message == SessionManager_pop_flash_message(map, session_id)
        error == SessionManager_pop_flash_error(message.sessions, session_id)
    IN  [value |-> [session_id |-> session_id,
                    flash_message |-> message.value, flash_error |-> error.value],
         sessions |-> error.sessions]

\* the test of session_middleware with "not session_id" only (used as a
\* faulty variant): any cookie sent is taken as the session id
NeedsSession_trusting(map, cookie) == IsNone(cookie)

\* session_middleware: "not session_id or not
\* session_manager.get_session(session_id)"
NeedsSession(map, cookie) ==
    IF IsNone(cookie) THEN TRUE
    ELSE IsNone(SessionManager_get_session(map, Val(cookie)))

\* request is the request in hand: the cookie it came with, the id
\* session_middleware put in request.state.session_id, what its handler
\* does with the flash slots, and the session_id cookie of the response,
\* None until the handler has returned.
Request(cookie, session_id, handler, set_cookie) ==
    Some([cookie |-> cookie, session_id |-> session_id,
          handler |-> handler, set_cookie |-> set_cookie])
Responded == IF IsNone(request) THEN TRUE ELSE ~IsNone(Val(request).set_cookie)
\* a handler sets a flash message, sets a flash error, renders a page
\* (get_flash_messages), or touches no flash slot
Handlers == {"set_flash_message", "set_flash_error", "get_flash_messages", "none"}

\* session_middleware up to "await call_next(request)"
session_middleware(cookie) ==
    /\ Responded
    /\ IF NeedsSession(sessions, cookie)
       THEN \E session_id \in SessionIds \ DOMAIN sessions :
               /\ sessions' = SessionManager_create_session(sessions, session_id)
               /\ request' = Request(cookie, session_id, "", None)
       ELSE /\ sessions' = sessions
            /\ request' = Request(cookie, Val(cookie), "", None)
    /\ UNCHANGED <<fields, history, field_seq, history_seq, flash_message, flash_error,
                   resp, returned, rec_request, recommendations, calculation>>
    /\ UNCHANGED <<area_vars, rule_vars, tx>>

\* call_next(request), the handler with request.state.session_id, and
\* response.set_cookie
call_next(handler) ==
    /\ ~Responded
    /\ LET session_id == Val(request).session_id
       IN  /\ request' = Request(Val(request).cookie, session_id, handler, Some(session_id))
           /\ CASE handler = "set_flash_message" ->
                     /\ sessions' = SessionManager_set_flash_message(sessions, session_id,
                                                                     "field created")
                     /\ returned' = NoReturn
                [] handler = "set_flash_error" ->
                     /\ sessions' = SessionManager_set_flash_error(sessions, session_id,
                                                                   "field name empty")
                     /\ returned' = NoReturn
                [] handler = "get_flash_messages" ->
                     /\ sessions' = session_get_flash_messages(sessions, session_id).sessions
                     /\ returned' = Returned("get_flash_messages",
                            Some(session_get_flash_messages(sessions, session_id).value))
                [] OTHER ->
                     /\ sessions' = sessions
                     /\ returned' = NoReturn
    /\ UNCHANGED <<fields, history, field_seq, history_seq, flash_message, flash_error,
                   resp, rec_request, recommendations, calculation>>
    /\ UNCHANGED <<area_vars, rule_vars, tx>>

\* What the requests of other clients do to the dict while a request is in
\* hand (the middleware awaits its handler): the same SessionManager
\* methods, with a session id of their own or with any id at all.
other_create_session ==
    /\ \E session_id \in SessionIds \ DOMAIN sessions :
          sessions' = SessionManager_create_session(sessions, session_id)
    /\ UNCHANGED <<fields, history, field_seq, history_seq, flash_message, flash_error,
                   resp, returned, rec_request, recommendations, calculation, request>>
    /\ UNCHANGED <<area_vars, rule_vars, tx>>

other_set_flash_message(session_id) ==
    /\ sessions' = SessionManager_set_flash_message(sessions, session_id, "field created")
    /\ returned' = NoReturn
    /\ UNCHANGED <<fields, history, field_seq, history_seq, flash_message, flash_error,
                   resp, rec_request, recommendations, calculation, request>>
    /\ UNCHANGED <<area_vars, rule_vars, tx>>

other_set_flash_error(session_id) ==
    /\ sessions' = SessionManager_set_flash_error(sessions, session_id, "field name empty")
    /\ returned' = NoReturn
    /\ UNCHANGED <<fields, history, field_seq, history_seq, flash_message, flash_error,
                   resp, rec_request, recommendations, calculation, request>>
    /\ UNCHANGED <<area_vars, rule_vars, tx>>

other_get_flash_messages(session_id) ==
    /\ sessions' = session_get_flash_messages(sessions, session_id).sessions
    /\ returned' = Returned("get_flash_messages",
                            Some(session_get_flash_messages(sessions, session_id).value))
    /\ UNCHANGED <<fields, history, field_seq, history_seq, flash_message, flash_error,
                   resp, rec_request, recommendations, calculation, request>>
    /\ UNCHANGED <<area_vars, rule_vars, tx>>

NextSession ==
    \/ \E cookie \in Cookies : session_middleware(cookie)
    \/ \E handler \in Handlers : call_next(handler)
    \/ other_create_session
    \/ \E session_id \in 0..MaxSessions : other_set_flash_message(session_id)
    \/ \E session_id \in 0..MaxSessions : other_set_flash_error(session_id)
    \/ \E session_id \in 0..MaxSessions : other_get_flash_messages(session_id)

SpecSession == Init /\ [][NextSession]_vars

\* ------------------------------------------------- the application as a whole
\* Requests of every kind on one store, and restarts of the process.
NextApp ==
    \/ create_field("Pole", None, None, None, TriangleText, "suglinok")
    \/ read_field(1)
    \/ \E field_id \in FieldIds : delete_field(field_id)
    \/ \E field_id \in FieldIds :
          add_field_history(field_id, 2024, "vesna", "pshenitsa", Some(30), None)
    \/ \E history_id \in HistoryIds : delete_history(history_id)
    \/ get_recommendations(1, "pshenitsa", 2024, 5)
    \/ calculate_economics("pshenitsa", 10)
    \/ get_yield_stats(None)
    \/ update_history(1, 2022, "zima", "yachmen", Some(30), None)
    \/ get_field_geojson(1)
    \/ restart

SpecApp == Init /\ [][NextApp]_vars

\* ================================================================ claims
\* the rows of crop_history owned by a field, as a set of row ids
RowsOf(field_id) == {h \in DOMAIN history : history[h].field_id = field_id}

\* C1: a step of delete_field on a stored field leaves no history entry of
\* that field (get_field_history of it is the empty list) and keeps every
\* history entry of every other field as it was.
C1_DeleteFieldCascades ==
    [][\A field_id \in FieldIds :
          (field_id \in DOMAIN fields /\ delete_field(field_id))
          => /\ field_id \notin DOMAIN fields'
             /\ get_field_history(field_id)' = <<>>
             /\ \A h \in DOMAIN history :
                   history[h].field_id # field_id
                   => h \in DOMAIN history' /\ history'[h] = history[h]
             /\ \A other \in FieldIds \ {field_id} :
                   get_field_history(other)' = get_field_history(other)]_vars

\* a field was deleted by the last request, an earlier history entry is gone
\* and an entry of another field is still stored
C1_Witness ==
    /\ returned = Returned("delete_field", Some(TRUE))
    /\ \E field_id \in 1..field_seq : field_id \notin DOMAIN fields
    /\ history_seq = 2
    /\ Cardinality(DOMAIN history) = 1
    /\ \A h \in DOMAIN history : history[h].field_id \in DOMAIN fields

\* C2: every stored history entry is owned by a stored field.
C2_NoOrphanHistory ==
    \A h \in DOMAIN history : history[h].field_id \in DOMAIN fields

\* C3: a step of delete_history on a stored entry removes exactly that entry
\* and Database.delete_crop_history returns the field id of the entry; on an
\* id that is not stored (never given, or deleted before) it returns None
\* and both tables stay as they were.
C3_DeleteHistoryResult ==
    [][\A history_id \in HistoryIds :
          delete_history(history_id)
          => /\ fields' = fields
             /\ IF history_id \in DOMAIN history
                THEN /\ DOMAIN history' = DOMAIN history \ {history_id}
                     /\ \A h \in DOMAIN history' : history'[h] = history[h]
                     /\ returned' = Returned("delete_crop_history",
                                             Some(history[history_id].field_id))
                ELSE /\ history' = history
                     /\ returned' = Returned("delete_crop_history", None)]_vars

\* an entry was deleted by the last request and the id of its field, which
\* differs from the id of the entry, was returned
C3_Witness ==
    /\ returned.fn = "delete_crop_history"
    /\ ~IsNone(returned.value)
    /\ 2 \notin DOMAIN history
    /\ history_seq = 2
    /\ Val(returned.value) = 1

\* -------------------------------------------------------- advisor claims
\* the category of a message, read from its title
Category(rec) ==
    CASE rec.title \in {"repeated planting", "good choice"} -> "repetition"
      [] rec.title = "soil type" -> "soil"
      [] rec.title = "seasonal recommendations" -> "seasonal"
      [] rec.title = "field area" -> "area"
      [] OTHER -> "unknown"

Categories(recs) == [i \in 1..Len(recs) |-> Category(recs[i])]
OfCategory(recs, cat) == SelectSeq(recs, LAMBDA r : Category(r) = cat)
PositiveArea(field) == ~IsNone(field.area) /\ Val(field.area) > 0

\* The last request was POST /recommendations for a stored field: resp is
\* its response, recommendations its list, and the two tables are as the
\* handler read them.
Advised ==
    /\ resp.url \in {"recommendations.html", "/recommendations"}
    /\ ~IsNone(rec_request)
    /\ Val(rec_request).field_id \in DOMAIN fields
AdvisedField == fields[Val(rec_request).field_id]

C8_AreaNote ==
    Advised
    => LET area == AdvisedField.area
           notes == OfCategory(recommendations, "area")
       IN  /\ resp = Page("recommendations.html")
           /\ Len(recommendations) - Len(notes) >= 2
           /\ IF PositiveArea(AdvisedField)
              THEN /\ Len(notes) = 1
                   /\ notes[1].type = "info"
                   /\ notes[1].area = area
                   /\ Val(area) < 500
                      => notes[1].advice = "small area, intensive techniques"
                   /\ Val(area) >= 500 /\ Val(area) < 2000
                      => notes[1].advice = "medium area, standard techniques"
                   /\ Val(area) >= 2000
                      => notes[1].advice = "large area, mechanized techniques"
              ELSE notes = <<>>

\* ----------------------------------------------------- calculator claim
\* C9: calculate_economics takes cost and income per hectare from the row
\* of the crop, one of 11, or 20000 and 40000 for any other crop; total
\* cost and total income are these times the area, the profit is their
\* difference, the profitability is profit / total_cost * 100 for a total
\* cost > 0 and 0 otherwise.  Wheat on 10 ha gives 150000, 300000, 150000
\* and 100; an unknown crop on 1 ha gives the profitability 100.
C9_Estimate ==
    (resp = Page("calculator.html") /\ ~IsNone(calculation))
    => LET c == Val(calculation)
           table == {<<"pshenitsa", 15000, 30000>>, <<"kartofel", 50000, 80000>>,
                     <<"podsolnechnik", 25000, 45000>>, <<"gorokh", 18000, 35000>>,
                     <<"yachmen", 14000, 28000>>, <<"kukuruza", 30000, 60000>>,
                     <<"oves", 13000, 25000>>, <<"soya", 22000, 45000>>,
                     <<"rozh", 12000, 24000>>, <<"grechikha", 16000, 32000>>,
                     <<"len", 20000, 40000>>}
           row == IF \E t \in table : t[1] = c.crop
                  THEN CHOOSE t \in table : t[1] = c.crop
                  ELSE <<c.crop, 20000, 40000>>
       IN  /\ Cardinality(table) = 11
           /\ c.cost_per_ha = row[2] /\ c.income_per_ha = row[3]
           /\ c.total_cost = row[2] * c.area
           /\ c.total_income = row[3] * c.area
           /\ c.profit = c.total_income - c.total_cost
           /\ IF c.total_cost > 0
              THEN c.profitability.num = 100 * c.profit
                   /\ c.profitability.den = c.total_cost
              ELSE c.profitability.num = 0
           /\ (c.crop = "pshenitsa" /\ c.area = 10)
              => /\ c.total_cost = 150000 /\ c.total_income = 300000
                 /\ c.profit = 150000
                 /\ c.profitability.num = 100 * c.profitability.den
           /\ (c.crop = "ris" /\ c.area = 1)
              => c.profitability.num = 100 * c.profitability.den

\* the calculator was asked for a crop outside the table and a negative
\* area: the total cost is negative and the profitability 0
C9_Witness ==
    /\ resp = Page("calculator.html")
    /\ ~IsNone(calculation)
    /\ Val(calculation).crop = "ris"
    /\ Val(calculation).total_cost < 0
    /\ Val(calculation).profitability.num = 0

\* ----------------------------------------------------- polygon area claim
Exact(x) == Fl(x) = x

\* no product, difference or partial sum of the loop over coords is rounded
NoRounding(coords) ==
    \A i \in 1..Len(coords) :
       LET j == (i % Len(coords)) + 1
           p == Lng(coords[i]) * Lat(coords[j])
           q == Lng(coords[j]) * Lat(coords[i])
       IN  /\ Exact(p) /\ Exact(q) /\ Exact(p - q)
           /\ Exact(ShoelaceSum(coords, i - 1) + (p - q))

\* C10 as claimed: a list of at least 3 points has the same area as each of
\* its cyclic rotations, its reversal and their compositions.
C10_OrderInvariant ==
    Len(area_origin) >= 3 => area_output = area_first

\* C10 amended: the same, for the lists whose sum is accumulated without
\* rounding in both orders.
C10_OrderInvariantExact ==
    (Len(area_origin) >= 3 /\ NoRounding(area_origin) /\ NoRounding(area_input))
    => area_output = area_first

\* the area of a triangle of 0.5 square degree was computed for its
\* reversed point list
C10_Witness ==
    /\ Len(area_origin) >= 3
    /\ area_input = Reversed(area_origin)
    /\ area_input # area_origin
    /\ NoRounding(area_origin) /\ NoRounding(area_input)
    /\ area_first = 555000
    /\ area_output = 555000

\* the sum of the shoelace formula over coords in exact arithmetic, in 1/64
\* square degree
RECURSIVE ExactShoelace(_, _)
ExactShoelace(coords, k) ==
    IF k = 0 THEN 0
    ELSE LET j == (k % Len(coords)) + 1
         IN  ExactShoelace(coords, k - 1)
             + (Lng(coords[k]) * Lat(coords[j]) - Lng(coords[j]) * Lat(coords[k]))

\* |sum| / 2 * 11100 in 1/32 hectare
ExactHectares32(coords) == Abs(ExactShoelace(coords, Len(coords))) * 2775

\* no float operation of _calculate_polygon_area on coords is rounded
ExactlyComputed(coords) == NoRounding(coords) /\ Exact(ExactHectares32(coords))

\* C11: for a list of at least 3 points the area returned is never 0; when
\* no float operation is rounded it is max(0.01, 11100 * |sum| / 2) rounded
\* to 2 decimals (0.01 when the value is below 0.01, else within half a
\* hundredth of it), so 5550.0 for the triangle [[0,0],[0,1],[1,0]] and 0.01
\* for a polygon whose sum is 0 (collinear points); a list of 3 points with
\* a repeated point gives 0.01 for any coordinates.
C11_AreaFormula ==
    Len(area_input) >= 3
    => /\ area_output >= 1
       /\ (\E i, j \in 1..3 : i # j /\ Len(area_input) = 3 /\ area_input[i] = area_input[j])
          => area_output = 1
       /\ ExactlyComputed(area_input)
          => LET ah32 == ExactHectares32(area_input)
             IN  /\ ah32 * 100 < 32 => area_output = 1
                 /\ ah32 * 100 >= 32 => Abs(ah32 * 100 - 32 * area_output) <= 16
                 /\ area_input = <<<<0, 0>>, <<0, 8>>, <<8, 0>>>> => area_output = 555000

\* the area of three distinct collinear points was computed, after the
\* list was rotated: 0.01 hectare
C11_Witness ==
    /\ Len(area_input) = 3
    /\ area_input # area_origin
    /\ Cardinality({area_input[i] : i \in 1..3}) = 3
    /\ ExactlyComputed(area_input)
    /\ ExactShoelace(area_input, 3) = 0
    /\ area_output = 1

\* C12: for a list of 0, 1 or 2 points _calculate_polygon_area returns 0.0
\* (and raises nothing: the value is returned before any point is read).
C12_FewPointsZero ==
    Len(area_input) < 3 => area_output = 0 /\ area_first = 0

\* the area of a list of two different points was computed, in both orders
C12_Witness ==
    /\ Len(area_input) = 2
    /\ area_input[1] # area_input[2]
    /\ area_input = Reversed(area_origin)
    /\ area_output = 0

\* ------------------------------------------------------- geometry claims
\* the point list a stored polygon text holds, <<>> when it holds none
StoredPoints(field) ==
    IF IsPointList(field.polygon_coords) THEN JsonValue(field.polygon_coords) ELSE <<>>

RECURSIVE SumOf(_, _)
SumOf(seq, k) == IF k = 0 THEN 0 ELSE SumOf(seq, k - 1) + seq[k]

\* C13: for every stored field whose polygon is a non-empty point list, as
\* create_field or update_field stored it, the centroid is (sum of the
\* latitudes / n, sum of the longitudes / n) and the bounding box holds the
\* least and the greatest latitude and longitude of the vertices; the
\* square [[0,0],[0,2],[2,2],[2,0]] has centroid (1, 1) and box 0, 2, 0, 2.
C13_CentroidAndBox ==
    \A id \in DOMAIN fields :
       LET coords == StoredPoints(fields[id])
           n == Len(coords)
           lats == [i \in 1..n |-> coords[i][1]]
           lngs == [i \in 1..n |-> coords[i][2]]
           f == fields[id]
       IN  n > 0
           => /\ ~IsNone(f.center_lat) /\ ~IsNone(f.center_lng)
              /\ ~IsNone(f.bounding_box)
              /\ Val(f.center_lat).num = SumOf(lats, n) /\ Val(f.center_lat).den = n
              /\ Val(f.center_lng).num = SumOf(lngs, n) /\ Val(f.center_lng).den = n
              /\ LET box == Val(f.bounding_box)
                 IN  /\ \E i \in 1..n : box.min_lat = lats[i]
                     /\ \E i \in 1..n : box.max_lat = lats[i]
                     /\ \E i \in 1..n : box.min_lng = lngs[i]
                     /\ \E i \in 1..n : box.max_lng = lngs[i]
                     /\ \A i \in 1..n : /\ box.min_lat <= lats[i] /\ lats[i] <= box.max_lat
                                        /\ box.min_lng <= lngs[i] /\ lngs[i] <= box.max_lng
              /\ coords = <<<<0, 0>>, <<0, 16>>, <<16, 16>>, <<16, 0>>>>
                 => /\ Val(f.center_lat).num = 8 * Val(f.center_lat).den
                    /\ Val(f.center_lng).num = 8 * Val(f.center_lng).den
                    /\ Val(f.bounding_box)
                       = [min_lat |-> 0, max_lat |-> 16, min_lng |-> 0, max_lng |-> 16]

\* a field is stored with the triangle [[1,0.5],[0,1],[0.5,0]], whose first
\* vertex has neither the least latitude nor the least longitude: centroid
\* (0.5, 0.5), box 0, 1, 0, 1
C13_Witness ==
    \E id \in DOMAIN fields :
       /\ StoredPoints(fields[id]) = <<<<8, 4>>, <<0, 8>>, <<4, 0>>>>
       /\ fields[id].center_lat = Some([num |-> 12, den |-> 3])
       /\ fields[id].center_lng = Some([num |-> 12, den |-> 3])
       /\ fields[id].bounding_box
          = Some([min_lat |-> 0, max_lat |-> 8, min_lng |-> 0, max_lng |-> 8])

\* C14: a call of create_field or update_field with the polygon text "[]"
\* (an empty point sequence) fails: no stored field has that polygon.
C14_EmptyPolygonRejected ==
    \A id \in DOMAIN fields : fields[id].polygon_coords # EmptyListText

\* a stored polygon text that holds a list with at least one element
PolygonPresent(field) ==
    IsList(field.polygon_coords) /\ Len(JsonValue(field.polygon_coords)) > 0

\* C15: every stored field whose polygon is present has a centroid and a
\* bounding box, and they are the ones the geometry code derives from the
\* stored polygon, after any sequence of create_field and update_field
\* calls.
C15_GeometryOfStoredPolygon ==
    \A id \in DOMAIN fields :
       PolygonPresent(fields[id])
       => /\ ~IsNone(fields[id].center_lat) /\ ~IsNone(fields[id].center_lng)
          /\ ~IsNone(fields[id].bounding_box)
          /\ LET geometry == db_update_geometry(fields[id].polygon_coords)
             IN  /\ fields[id].center_lat = geometry.center_lat
                 /\ fields[id].center_lng = geometry.center_lng
                 /\ fields[id].bounding_box = geometry.bounding_box

\* ------------------------------------------------------ validation claims
\* the polygon text is not valid JSON ("" is no polygon at all)
NotJson(text) == text.kind \in {"invalid", "blank"}
\* the polygon text is JSON but not a list of at least 3 points
NotThreePoints(text) ==
    /\ JsonValid(text)
    /\ ~(IsPointList(text) /\ Len(JsonValue(text)) >= 3)

\* C16: a step of POST /fields with a blank name, a polygon text that is
\* not valid JSON or a polygon that is not a list of at least 3 points sets
\* a flash error and leaves the stored fields as they were.
C16_InvalidFormRejected ==
    [][\A form \in FieldForms :
          (/\ create_field(form[1], form[2], form[3], form[4], form[5], "suglinok")
           /\ (IsBlank(form[1]) \/ NotJson(form[5]) \/ NotThreePoints(form[5])))
          => /\ fields' = fields
             /\ field_seq' = field_seq
             /\ flash_error' \in {Some("field name empty"), Some("polygon format"),
                                  Some("polygon needs 3 points")}]_vars

\* degrees in eighths
InLatRange(x) == 0 - 720 <= x /\ x <= 720
InLngRange(x) == 0 - 1440 <= x /\ x <= 1440

\* C17: every stored field has a name of at most 100 characters, an area
\* that is absent or positive, a latitude and longitude that are absent or
\* within [-90, 90] and [-180, 180], and a polygon that is absent or a list
\* of (lat, lng) pairs within those ranges.
C17_FieldConstraints ==
    \A id \in DOMAIN fields :
       LET f == fields[id]
       IN  /\ Len(f.name) <= 100
           /\ IsNone(f.area) \/ Val(f.area) > 0
           /\ IsNone(f.latitude) \/ InLatRange(Val(f.latitude))
           /\ IsNone(f.longitude) \/ InLngRange(Val(f.longitude))
           /\ \/ ~Truthy(f.polygon_coords)
              \/ /\ IsPointList(f.polygon_coords)
                 /\ \A i \in 1..Len(JsonValue(f.polygon_coords)) :
                       /\ InLatRange(JsonValue(f.polygon_coords)[i][1])
                       /\ InLngRange(JsonValue(f.polygon_coords)[i][2])

\* --------------------------------------------------------- history claims
\* C18: get_field_history(id) returns exactly the stored entries of the
\* field, by year descending and within a year by season rank descending,
\* where spring < summer < autumn < any other season; its first entry is
\* one that get_last_crop can return.
C18_HistoryOrder ==
    \A field_id \in FieldIds :
       LET rows == get_field_history(field_id)
       IN  /\ Len(rows) = Cardinality(RowsOf(field_id))
           /\ {rows[i].id : i \in 1..Len(rows)} = RowsOf(field_id)
           /\ \A i \in 1..Len(rows) :
                 /\ rows[i].year = history[rows[i].id].year
                 /\ rows[i].season = history[rows[i].id].season
                 /\ rows[i].crop = history[rows[i].id].crop
           /\ \A i, j \in 1..Len(rows) :
                 i < j
                 => \/ rows[i].year > rows[j].year
                    \/ /\ rows[i].year = rows[j].year
                       /\ SeasonRank(rows[i].season) >= SeasonRank(rows[j].season)
           /\ Len(rows) > 0 => rows[1].id \in get_last_crop(field_id)

\* the entries with a recorded yield that a request for the statistics of
\* field_id (None: of all fields) counts according to the claim
Yielding(field_id) ==
    {h \in DOMAIN history :
       /\ ~IsNone(history[h].yield_amount)
       /\ IsNone(field_id) \/ history[h].field_id = Val(field_id)}

\* C19: a step of GET /api/yield-stats returns three arrays of one length;
\* the crops are, once each, the crops of the entries with a yield (of the
\* field when a field id is given), counts[i] is the number of such entries
\* of crops[i] and yields[i] their mean yield.
C19_YieldStats ==
    [][\A field_id \in StatFieldIds :
          get_yield_stats(field_id)
          => LET body == Val(resp'.arg)
                 n == Len(body.crops)
                 rows == Yielding(field_id)
             IN  /\ Len(body.yields) = n /\ Len(body.counts) = n
                 /\ {body.crops[i] : i \in 1..n} = {history[h].crop : h \in rows}
                 /\ \A i, j \in 1..n : i # j => body.crops[i] # body.crops[j]
                 /\ \A i \in 1..n :
                       LET group == {h \in rows : history[h].crop = body.crops[i]}
                       IN  /\ body.counts[i] = Cardinality(group)
                           /\ body.yields[i].num * Cardinality(group)
                              = YieldSum(group) * body.yields[i].den]_vars

\* C20: a step of a request handler with a field id or a history id that is
\* not stored is answered with the 404 response and leaves the tables and
\* counters of the store as they were.
C20_UnknownIdNotFound ==
    [][/\ \A field_id \in FieldIds :
             (/\ field_id \notin DOMAIN fields
              /\ \/ read_field(field_id)
                 \/ delete_field(field_id)
                 \/ \E year \in HistYears, season \in HistSeasons :
                       add_field_history(field_id, year, season, "pshenitsa", None, None))
             => (resp' = NotFound /\ UNCHANGED store_vars)
       /\ \A history_id \in HistoryIds :
             (history_id \notin DOMAIN history /\ delete_history(history_id))
             => (resp' = NotFound /\ UNCHANGED store_vars)]_vars

\* ------------------------------------------------------ crop rule claims
\* the rows _init_crop_rules seeds a new database with
SeededRules == {Rules[k] : k \in 1..Len(Rules)}

\* C21: after any sequence of requests (creating and deleting fields and
\* history entries, recommendations, calculator, statistics) the crop_rules
\* table is the table seeded at startup: the same rows under the same ids.
C21_RulesAreSeeded ==
    /\ get_all_crop_rules = SeededRules
    /\ crop_rules = init_crop_rules(<<>>, 0, 1).table

\* requests have created and deleted a field, added a history entry and
\* deleted one, and the last request was the calculator
C21_Witness ==
    /\ field_seq > Cardinality(DOMAIN fields)
    /\ history_seq > Cardinality(DOMAIN history)
    /\ DOMAIN history # {}
    /\ ~IsNone(calculation)
    /\ get_all_crop_rules = SeededRules

\* C26: a restart (init_db run again on the existing database) leaves the
\* crop_rules table as it was, no row added, removed or modified, and no two
\* rows of the table have the same crop.
C26_ReinitKeepsRules ==
    [][restart
       => /\ crop_rules' = crop_rules
          /\ \A a, b \in DOMAIN crop_rules' :
                crop_rules'[a].crop = crop_rules'[b].crop => a = b]_vars

\* init_db has run a second time, on a database holding a field, and the
\* table has its 14 rows
C26_Witness ==
    /\ rule_seq = 2 * Len(Rules)
    /\ Cardinality(DOMAIN crop_rules) = 14
    /\ DOMAIN fields # {}

\* ------------------------------------------------------- GeoJSON export
\* the last request was GET /api/fields/{field_id}/geojson of a stored field
Exported ==
    /\ resp.status = 200
    /\ resp.url = "/api/fields/{field_id}/geojson"
ExportedField == Val(returned.value)
\* the field has a polygon: its polygon text is a list of 3 or more points
HasPolygon(field) ==
    /\ IsPointList(field.polygon_coords)
    /\ Len(JsonValue(field.polygon_coords)) >= 3

\* C22: the GeoJSON export of a stored field is a FeatureCollection with
\* one Feature when the field has a polygon and none when it has not; the
\* Feature has the id, name, area, soil type and creation timestamp of the
\* field as properties and a Polygon geometry whose coordinates are the
\* stored vertex list inside one more list.
C22_GeoJsonExport ==
    Exported
    => LET body == Val(resp.arg)
           field == ExportedField
       IN  /\ body.type = "FeatureCollection"
           /\ Len(body.features) = IF HasPolygon(field) THEN 1 ELSE 0
           /\ \A i \in 1..Len(body.features) :
                 /\ body.features[i].type = "Feature"
                 /\ \E field_id \in DOMAIN fields :
                       /\ fields[field_id] = field
                       /\ body.features[i].properties =
                             [id |-> field_id, name |-> field.name, area |-> field.area,
                              soil_type |-> field.soil_type,
                              created_at |-> field.created_at]
                 /\ body.features[i].geometry.type = "Polygon"
                 /\ body.features[i].geometry.coordinates
                       = <<JsonValue(field.polygon_coords)>>

\* ---------------------------------------------------------- history edit
\* C23: a step of update_history, whatever the form, leaves every stored
\* history entry (and every field) as it was; it answers with the redirect
\* and the success message only for the id of a stored entry, and with 404
\* for an id that is not stored.
C23_EditKeepsHistory ==
    [][\A history_id \in HistoryIds, form \in EditForms :
          update_history(history_id, form[1], form[2], form[3], form[4], None)
          => /\ history' = history
             /\ fields' = fields
             /\ resp'.status = 303
                => /\ history_id \in DOMAIN history
                   /\ flash_message' = Some("history updated")
             /\ history_id \notin DOMAIN history => resp' = NotFound]_vars

\* the last request was an accepted edit of a stored entry, and the entry
\* still has the year and season it was added with, which no form has
C23_Witness ==
    /\ returned.fn = "get_history_entry"
    /\ resp.status = 303
    /\ flash_message = Some("history updated")
    /\ \E h \in DOMAIN history :
          /\ returned.value = Some(history[h])
          /\ history[h].year = 2023
          /\ history[h].season = "leto"

\* ------------------------------------------------- delete_field atomicity
\* C24: Database.delete_field is atomic.  While its transaction is open the
\* committed tables do not change; when it ends, either the field row and
\* every history entry of the field are removed together (and nothing
\* else), or, when a statement or the commit failed, both tables are as
\* they were.  So committed tables that held no entry without its field hold
\* none afterwards.
C24_DeleteFieldAtomic ==
    [][/\ (tx # None /\ tx' # None) => (fields' = fields /\ history' = history)
       /\ (tx # None /\ tx' = None)
          => LET field_id == Val(tx).field_id
             IN  /\ \/ /\ fields' = Restrict(fields, DOMAIN fields \ {field_id})
                       /\ history' = Restrict(history, DOMAIN history \ RowsOf(field_id))
                    \/ /\ fields' = fields
                       /\ history' = history
                 /\ C2_NoOrphanHistory => C2_NoOrphanHistory']_vars

\* a delete_field of a field with a history entry failed at its commit,
\* after the three DELETEs: the field and its entry are stored as before
C24_Witness ==
    /\ returned.fn = "delete_field raised"
    /\ tx = None
    /\ Val(returned.value).executed = 3
    /\ Val(returned.value).field_id \in DOMAIN fields
    /\ RowsOf(Val(returned.value).field_id) # {}

\* ------------------------------------------------- the area of a new field
\* C25: a creation (POST /fields or Database.create_field) that stores a
\* field stores, for a polygon text of 3 or more points and no area, the
\* area _calculate_polygon_area gives for the points, and for an area > 0
\* that area, with a polygon or without.
C25_AreaOfNewField ==
    [][\A form \in GeoForms :
          (/\ \/ create_field("Pole", form[1], None, None, form[2], "suglinok")
              \/ Database_create_field("Pole", form[1], form[2])
           /\ field_seq' = field_seq + 1)
          => LET stored == fields'[field_seq + 1].area
             IN  /\ (IsNone(form[1]) /\ IsPointList(form[2]) /\ Len(JsonValue(form[2])) >= 3)
                    => stored = Some(calculate_polygon_area(JsonValue(form[2])))
                 /\ (~IsNone(form[1]) /\ Val(form[1]) > 0)
                    => stored = form[1]]_vars

\* two stored fields with the same triangle: one created without area has
\* the computed area, one created with the area 10.00 has that area
C25_Witness ==
    \E a, b \in DOMAIN fields :
       /\ fields[a].polygon_coords = SkewTriangleText
       /\ fields[b].polygon_coords = SkewTriangleText
       /\ fields[a].area = Some(calculate_polygon_area(JsonValue(SkewTriangleText)))
       /\ fields[b].area = Some(1000)
       /\ fields[a].area # fields[b].area

\* --------------------------------------------------------- session claims
\* the cookie names a session of the dict
KnownCookie(cookie) == ~IsNone(cookie) /\ Val(cookie) \in DOMAIN sessions

\* C27: no step removes a key of SessionManager.sessions; a request whose
\* cookie is missing or names no session adds exactly one session, a
\* request with the cookie of a session adds none.
C27_SessionsOnlyGrow ==
    [][/\ DOMAIN sessions \subseteq DOMAIN sessions'
       /\ \A cookie \in Cookies :
             session_middleware(cookie)
             => IF KnownCookie(cookie)
                THEN DOMAIN sessions' = DOMAIN sessions
                ELSE Cardinality(DOMAIN sessions' \ DOMAIN sessions) = 1]_vars

\* a request that came with a cookie naming no session has been answered
\* with a page, which popped the flash slots; two sessions are stored
C27_Witness ==
    /\ ~IsNone(request)
    /\ Val(request).cookie = Some(0)
    /\ Val(request).handler = "get_flash_messages"
    /\ returned.fn = "get_flash_messages"
    /\ Cardinality(DOMAIN sessions) = 2

\* what a step that sets the message (slot "flash_message") or the error
\* (slot "flash_error") of session_id has to leave
SetLeaves(session_id, slot, text) ==
    IF session_id \in DOMAIN sessions
    THEN /\ DOMAIN sessions' = DOMAIN sessions
         /\ sessions'[session_id][slot] = Some(text)
         /\ \A other \in {"flash_message", "flash_error"} \ {slot} :
               sessions'[session_id][other] = sessions[session_id][other]
         /\ \A other \in DOMAIN sessions \ {session_id} : sessions'[other] = sessions[other]
    ELSE sessions' = sessions
\* what a step of get_flash_messages for session_id has to return and leave
PopLeaves(session_id) ==
    IF session_id \in DOMAIN sessions
    THEN /\ returned'.value = Some([session_id |-> session_id,
                                    flash_message |-> sessions[session_id].flash_message,
                                    flash_error |-> sessions[session_id].flash_error])
         /\ DOMAIN sessions' = DOMAIN sessions
         /\ sessions'[session_id] = NoFlash
         /\ \A other \in DOMAIN sessions \ {session_id} : sessions'[other] = sessions[other]
    ELSE /\ returned'.value = Some([session_id |-> session_id,
                                    flash_message |-> None, flash_error |-> None])
         /\ sessions' = sessions

\* C28: get_flash_messages of a session returns the message and the error
\* the session holds, those set last in it, and leaves both slots empty, so
\* that the next get_flash_messages returns none unless one is set again;
\* setting or popping in one session leaves the slots of every other
\* session as they were; setting for an id that is no session changes
\* nothing; and a step that creates a session changes no slot of another.
C28_FlashOncePerSession ==
    [][/\ \A session_id \in 0..MaxSessions :
             /\ other_set_flash_message(session_id)
                => SetLeaves(session_id, "flash_message", "field created")
             /\ other_set_flash_error(session_id)
                => SetLeaves(session_id, "flash_error", "field name empty")
             /\ other_get_flash_messages(session_id) => PopLeaves(session_id)
       /\ call_next("set_flash_message")
          => SetLeaves(Val(request).session_id, "flash_message", "field created")
       /\ call_next("set_flash_error")
          => SetLeaves(Val(request).session_id, "flash_error", "field name empty")
       /\ call_next("get_flash_messages") => PopLeaves(Val(request).session_id)
       /\ call_next("none") => sessions' = sessions
       /\ ((\E cookie \in Cookies : session_middleware(cookie)) \/ other_create_session)
          => \A other \in DOMAIN sessions : sessions'[other] = sessions[other]]_vars

\* get_flash_messages of session 1 has returned its message and its error
\* and emptied its slots, while session 2 still holds a message and an error
C28_Witness ==
    /\ returned = Returned("get_flash_messages",
                           Some([session_id |-> 1,
                                 flash_message |-> Some("field created"),
                                 flash_error |-> Some("field name empty")]))
    /\ DOMAIN sessions = {1, 2}
    /\ sessions[1] = NoFlash
    /\ sessions[2] = [flash_message |-> Some("field created"),
                      flash_error |-> Some("field name empty")]

ReturnedIds == 1..field_seq
DeletedIds == ReturnedIds \ DOMAIN fields

\* C30: the id a creation stores its field under is none that create_field
\* returned before, whether that field is still stored or was deleted; the
\* id of a deleted field never names a stored field again, so no history
\* entry recorded under such an id is in get_field_history of a field
\* created later.
C30_IdsNeverReused ==
    [][/\ ReturnedIds \subseteq ReturnedIds'
       /\ DOMAIN fields' \subseteq ReturnedIds'
       /\ \A id \in DeletedIds : id \notin DOMAIN fields'
       /\ \A id \in DOMAIN fields' \ DOMAIN fields :
             /\ id \notin ReturnedIds
             /\ returned' = Returned("create_field", Some(id))
             /\ \A h \in DOMAIN history :
                   history[h].field_id \in DeletedIds
                   => \A i \in 1..Len(get_field_history(id)') :
                         get_field_history(id)'[i].id # h]_vars

\* the last request created field 2 after field 1 was deleted, and the
\* history entry stored under the id 1 is not in the history of field 2
C30_Witness ==
    /\ returned = Returned("create_field", Some(2))
    /\ DOMAIN fields = {2}
    /\ \E h \in DOMAIN history : history[h].field_id = 1
    /\ get_field_history(2) = <<>>

====
